---- MODULE Spec2Model ----
(***************************************************************************)
(* The knowledge pathway engine of the Parentheses protocol:               *)
(*   KnowledgeValidator  (src/src/ai/validation.py)                        *)
(*   LearningPathway     (src/src/ai/learning_pathway.py)                  *)
(*   KnowledgeExchange   (src/src/ai/knowledge_exchange.py)                *)
(* The ledger (SolanaClient, TokenManager) is the environment: each of its *)
(* calls is a suspension point of the asyncio task that awaits it and ends *)
(* by returning a value or by raising.  Everything a task does between two *)
(* suspension points is one atomic step of the single-threaded event loop. *)
(***************************************************************************)
EXTENDS Integers, Sequences, FiniteSets, TLC

(***************************************************************************)
(* Bounds of the model.                                                    *)
(***************************************************************************)
\* A Python list holds at most MemoryCap entries: list.append on a list of
\* that length raises MemoryError (the interpreter's memory is finite).
MemoryCap == 3
\* Number of submit_knowledge_transaction calls in one behaviour.
MaxSubmits == 2
\* Number of submit_knowledge tasks waiting on the ledger at one time.
MaxPending == 1
\* Number of iterations of the exchange cycle in one behaviour.
MaxCycles == 2
\* The clock advances MaxTicks times, TickSeconds seconds at a time.
MaxTicks == 2
\* start_exchange_cycle calls made while a cycle task is running
MaxRestarts == 1
TickSeconds == 1800
\* Steps of the power iteration that approximates an irrational eigenvector.
PowerSteps == 3

(***************************************************************************)
(* Python dicts keep insertion order; a dict is a sequence of <<key,       *)
(* value>> pairs with pairwise different keys.                             *)
(***************************************************************************)
RECURSIVE DictIndex(_, _, _)
DictIndex(d, k, i) ==
    IF i > Len(d) THEN 0
    ELSE IF d[i][1] = k THEN i
    ELSE DictIndex(d, k, i + 1)

DictHas(d, k) == DictIndex(d, k, 1) # 0

DictKeys(d) == [i \in 1..Len(d) |-> d[i][1]]

DictKeySet(d) == {d[i][1] : i \in 1..Len(d)}

DictGet(d, k) == d[DictIndex(d, k, 1)][2]

\* d[k] = v: an existing key keeps its place, a new key goes last.
DictSet(d, k, v) ==
    IF DictHas(d, k)
    THEN [d EXCEPT ![DictIndex(d, k, 1)] = <<k, v>>]
    ELSE Append(d, <<k, v>>)

SeqToSet(s) == {s[i] : i \in 1..Len(s)}

RECURSIVE SumOver(_, _)
SumOver(f, S) ==
    IF S = {} THEN 0
    ELSE LET x == CHOOSE y \in S : TRUE
         IN  f[x] + SumOver(f, S \ {x})

RECURSIVE Pow10(_)
Pow10(n) == IF n = 0 THEN 1 ELSE 10 * Pow10(n - 1)

RECURSIVE Gcd(_, _)
Gcd(a, b) == IF b = 0 THEN a ELSE Gcd(b, a % b)

RECURSIVE LcmUpTo(_)
LcmUpTo(n) == IF n <= 1 THEN 1
              ELSE LET l == LcmUpTo(n - 1) IN (l * n) \div Gcd(l, n)

(***************************************************************************)
(* Knowledge items.  A dict with string keys is a function on the keys it  *)
(* has (sort_keys canonical form: two dicts with the same pairs are the    *)
(* same function).  `content` keeps its key order, because json.dumps of   *)
(* the content alone (similarity, size) is taken without sort_keys: it is  *)
(* a sequence of <<key, value>> pairs, a value being a string              *)
(* [str |-> s] or a nested dict [dict |-> pairs of <<key, string>>].       *)
(***************************************************************************)
Str(s) == [str |-> s]
Dict(pairs) == [dict |-> pairs]
\* A Python list and a Python tuple of dicts, each dict given by its keys.
List(entries) == [list |-> entries]
Tuple(entries) == [tuple |-> entries]
\* A string of n characters.
Blob(n) == [blob |-> n]

\* A version string is its sequence of characters.
V_1_0_0 == <<"1", ".", "0", ".", "0">>
V_1_0 == <<"1", ".", "0">>

AlgoContent(name, params) ==
    << <<"type", Str("algorithm")>>,
       <<"algorithm", Dict(<< <<"name", name>>,
                              <<"parameters", params>>,
                              <<"complexity", "O(n)">> >>)>> >>

TrainingContent(data) ==
    << <<"type", Str("training_data")>>, <<"data", data>> >>

UnknownContent ==
    << <<"type", Str("unknown_type")>>, <<"payload", Str("x")>> >>

\* datetime.now().isoformat() at `at` seconds; [iso |-> FALSE] is a string
\* that datetime.fromisoformat rejects.
IsoTime(at) == [iso |-> TRUE, at |-> at]

BaseItem(content, domain, contributor) ==
    [content      |-> content,
     domain       |-> domain,
     contributor  |-> contributor,
     timestamp    |-> IsoTime(0),
     version      |-> V_1_0_0,
     metadata     |-> [isdict |-> TRUE],
     dependencies |-> <<>>]

WithField(item, k, v) ==
    [f \in DOMAIN item \cup {k} |-> IF f = k THEN v ELSE item[f]]

WithoutField(item, k) == [f \in DOMAIN item \ {k} |-> item[f]]

\* The dicts submitted in this model (ItemA follows test_ai.py:35-50).
ItemA == BaseItem(AlgoContent("sort", "n"), "ml", "alice")
ItemB == WithField(BaseItem(AlgoContent("scan", "n"), "ml", "bob"),
                   "signature", "sigB")
ItemC == WithField(BaseItem(AlgoContent("hash", "k"), "nlp", ""),
                   "signature", "sigC")
ItemBadType == BaseItem(UnknownContent, "ml", "alice")

Universe == <<ItemA, ItemB, ItemC, ItemBadType>>

\* The dicts that are given to the validator only.  U+00B2 is SUPERSCRIPT
\* TWO, a character for which str.isdigit() is true.
FieldNames ==
    <<"content", "domain", "contributor", "timestamp", "version", "metadata",
      "dependencies">>

V_1_0_0_0 == <<"1", ".", "0", ".", "0", ".", "0">>
V_1__0 == <<"1", ".", ".", "0">>
V_minus_1_0_0 == <<"-", "1", ".", "0", ".", "0">>
V_a_b_c == <<"a", ".", "b", ".", "c">>
V_1_0_sup2 == <<"1", ".", "0", ".", "U+00B2">>

BadVersions == <<V_1_0, V_1_0_0_0, V_1__0, V_minus_1_0_0, V_a_b_c, V_1_0_sup2>>

Dependency(id, version) == [id |-> id, version |-> version]

ItemDepNoVersion == WithField(ItemA, "dependencies", <<[id |-> "dep"]>>)
ItemDepBad(version) ==
    WithField(ItemA, "dependencies",
              <<Dependency("dep", V_1_0_0), Dependency("dep2", version)>>)
\* metadata holding a value json.dumps cannot serialise (a set).
ItemUnserializable ==
    WithField(ItemA, "metadata", [isdict |-> TRUE, serializable |-> FALSE])
ItemBadTimestamp == WithField(ItemA, "timestamp", [iso |-> FALSE])
ItemMetadataList == WithField(ItemA, "metadata", [isdict |-> FALSE])
\* Training data whose `data` is a list of one entry, and the same with a
\* tuple for the list: json.dumps writes both as the same array.
ItemListData ==
    BaseItem(TrainingContent(List(<< <<"input", "output", "metadata">> >>)),
             "ml", "alice")
ItemTupleData ==
    BaseItem(TrainingContent(Tuple(<< <<"input", "output", "metadata">> >>)),
             "ml", "alice")

ValidatorOnly ==
    [i \in 1..Len(FieldNames) |-> WithoutField(ItemA, FieldNames[i])]
    \o [i \in 1..Len(BadVersions) |-> WithField(ItemA, "version", BadVersions[i])]
    \o <<ItemDepBad(V_1_0), ItemDepBad(V_1_0_sup2), ItemDepNoVersion,
         ItemUnserializable, ItemBadTimestamp, ItemMetadataList>>

\* The dicts given to the validator alone: to the validator ItemB and ItemC
\* are as ItemA.
ValidatorInputs == {ItemA} \cup SeqToSet(ValidatorOnly)

\* Dicts for the validator among which two have the same JSON text.
JsonTwins == {ItemA, ItemBadType, ItemListData, ItemTupleData}

\* Whether json.dumps(knowledge_data, sort_keys=True) returns.
JsonSerializable(knowledge_data) ==
    ~ /\ "metadata" \in DOMAIN knowledge_data
      /\ "serializable" \in DOMAIN knowledge_data.metadata
      /\ ~knowledge_data.metadata.serializable

Items == SeqToSet(Universe)

Domains == {Universe[i].domain : i \in 1..Len(Universe)}

TxIds == {"tx1", "tx2"}

(***************************************************************************)
(* json.dumps(content).split(): the whitespace-separated tokens of the     *)
(* default JSON text `{"k": "v", "k2": {"a": "b"}}`.  A token is a key     *)
(* `"k":` or a value `"v"`, with the braces and the comma that stick to it.*)
(***************************************************************************)
Token(open, text, isKey, close, comma) ==
    [open |-> open, text |-> text, key |-> isKey, close |-> close,
     comma |-> comma]

\* Tokens of the pairs of a dict; `after` is the number of closing braces
\* of enclosing dicts and `more` whether a comma follows the dict.
InnerTokens(pairs, after, more) ==
    IF Len(pairs) = 0
    THEN {Token(0, "{}", FALSE, after, more)}
    ELSE UNION {
           {Token(IF j = 1 THEN 1 ELSE 0, pairs[j][1], TRUE, 0, FALSE),
            Token(0, pairs[j][2], FALSE,
                  IF j = Len(pairs) THEN 1 + after ELSE 0,
                  IF j = Len(pairs) THEN more ELSE TRUE)}
           : j \in 1..Len(pairs)}

JsonTokens(content) ==
    IF Len(content) = 0
    THEN {Token(0, "{}", FALSE, 0, FALSE)}
    ELSE UNION {
           LET final == (i = Len(content))
               v    == content[i][2]
           IN  {Token(IF i = 1 THEN 1 ELSE 0, content[i][1], TRUE, 0, FALSE)}
               \cup
               (IF "str" \in DOMAIN v
                THEN {Token(0, v.str, FALSE, IF final THEN 1 ELSE 0, ~final)}
                ELSE InnerTokens(v.dict, IF final THEN 1 ELSE 0, ~final))
           : i \in 1..Len(content)}

\* len(json.dumps(pairs)) for a dict of strings: braces, quoted keys and
\* values, ": " and ", " separators.
RECURSIVE InnerLength(_, _)
InnerLength(pairs, j) ==
    IF j > Len(pairs) THEN 0
    ELSE Len(pairs[j][1]) + Len(pairs[j][2]) + 6
         + (IF j < Len(pairs) THEN 2 ELSE 0)
         + InnerLength(pairs, j + 1)

\* len(json.dumps(entries)) for a list or a tuple of dicts whose values
\* are the number 1: `[{"input": 1, "output": 1}]`.
RECURSIVE KeysLength(_, _)
KeysLength(entry, j) ==
    IF j > Len(entry) THEN 0
    ELSE Len(entry[j]) + 5 + (IF j < Len(entry) THEN 2 ELSE 0)
         + KeysLength(entry, j + 1)

RECURSIVE ArrayLength(_, _)
ArrayLength(entries, j) ==
    IF j > Len(entries) THEN 0
    ELSE 2 + KeysLength(entries[j], 1) + (IF j < Len(entries) THEN 2 ELSE 0)
         + ArrayLength(entries, j + 1)

RECURSIVE PairsLength(_, _)
PairsLength(content, i) ==
    IF i > Len(content) THEN 0
    ELSE LET v == content[i][2]
         IN  Len(content[i][1]) + 4
             + (IF "str" \in DOMAIN v THEN Len(v.str) + 2
                ELSE IF "list" \in DOMAIN v THEN 2 + ArrayLength(v.list, 1)
                ELSE IF "tuple" \in DOMAIN v THEN 2 + ArrayLength(v.tuple, 1)
                ELSE IF "blob" \in DOMAIN v THEN v.blob + 2
                ELSE 2 + InnerLength(v.dict, 1))
             + (IF i < Len(content) THEN 2 ELSE 0)
             + PairsLength(content, i + 1)

JsonLength(content) == 2 + PairsLength(content, 1)

\* The content with one more string value, as long as it takes for
\* json.dumps to write `size` characters.
Padded(content, size) ==
    Append(content, <<"padding", Blob(size - JsonLength(content) - 15)>>)

\* Serialized sizes on both sides of max_size, and on both sides of the
\* size at which a full type score averages to 0.85.
ContentSizes == <<1000, 314572, 314573, 1048575, 1048576, 1048577>>

\* Dicts that differ from ItemA in the size and the type of the content.
ContentInputs ==
    [i \in 1..Len(ContentSizes) |->
        BaseItem(Padded(AlgoContent("sort", "n"), ContentSizes[i]), "ml", "alice")]
    \o [i \in 1..Len(ContentSizes) |->
        BaseItem(Padded(UnknownContent, ContentSizes[i]), "ml", "alice")]

\* validation_threshold of KnowledgeValidator.__init__, in hundredths.
Thresholds == {0, 1, 25, 50, 51, 70, 85, 86, 100}

\* Every dict of this model, in the order of their digests.
Hashed == Universe \o ValidatorOnly \o <<ItemListData>> \o ContentInputs

\* data.get('content', ''): json.dumps('') is the one token `""`.
ContentTokens(item) ==
    IF "content" \in DOMAIN item THEN JsonTokens(item.content)
    ELSE {Token(0, "", FALSE, 0, FALSE)}

(***************************************************************************)
(* Digests.  sha256 of the sort_keys JSON text of the item: one id per     *)
(* JSON text, the same for the same pairs in any order; the place in       *)
(* Hashed of the dict that json.loads would read back from the text stands *)
(* for the hex digest.                                                     *)
(***************************************************************************)
\* json.dumps writes a tuple as it writes the list of the same elements.
JsonForm(knowledge_data) ==
    IF "content" \notin DOMAIN knowledge_data THEN knowledge_data
    ELSE [knowledge_data EXCEPT !.content =
            [i \in 1..Len(@) |->
                IF "tuple" \in DOMAIN @[i][2]
                THEN <<@[i][1], List(@[i][2].tuple)>> ELSE @[i]]]

_generate_knowledge_id(knowledge_data) ==
    CHOOSE i \in 1..Len(Hashed) : Hashed[i] = JsonForm(knowledge_data)

\* The digest bytes of the same text.
_create_signature(knowledge_data) ==
    <<"digest", _generate_knowledge_id(knowledge_data)>>

\* str(hash(json.dumps(knowledge_data, sort_keys=True))), or the hash of
\* str(knowledge_data) when json.dumps raises.
_generate_cache_key(knowledge_data) ==
    IF JsonSerializable(knowledge_data)
    THEN <<"hash", _generate_knowledge_id(knowledge_data)>>
    ELSE <<"hash_str", _generate_knowledge_id(knowledge_data)>>

KnowledgeIds == 1..Len(Universe)

(***************************************************************************)
(* Scores.  A score is an integer number of 1/Unit: Unit is chosen so that *)
(* 1/n for every graph size n and MaxCycles smoothing steps are exact.     *)
(***************************************************************************)
MaxGraphSize ==
    LET size(d) == Cardinality({it \in Items : it.domain = d})
    IN  CHOOSE n \in 0..Len(Universe) :
          /\ \E d \in Domains : size(d) = n
          /\ \A d \in Domains : size(d) <= n

Unit == LcmUpTo(MaxGraphSize) * 10 * Pow10(MaxCycles)

SecondsPerDay == 86400

(***************************************************************************)
(* LearningPathway                                                         *)
(***************************************************************************)
NewPathway(domain) ==
    [domain              |-> domain,
     knowledge_graph     |-> <<>>,
     connections         |-> <<>>,
     performance_metrics |-> <<>>,
     contributor_scores  |-> <<>>]

\* _calculate_similarity dividing by the tokens of data1 alone.
_calculate_similarity_of_first(data1, data2) ==
    LET set1 == ContentTokens(data1)
        set2 == ContentTokens(data2)
        intersection == Cardinality(set1 \cap set2)
    IN  IF Cardinality(set1) > 0 THEN <<intersection, Cardinality(set1)>>
        ELSE <<0, 1>>

_calculate_similarity(data1, data2) ==
    LET set1 == ContentTokens(data1)
        set2 == ContentTokens(data2)
        intersection == Cardinality(set1 \cap set2)
        union == Cardinality(set1 \cup set2)
    IN  IF union > 0 THEN <<intersection, union>> ELSE <<0, 1>>

\* similarity > 0.7, the similarity being the fraction <<num, den>>.
Exceeds07(sim) == 10 * sim[1] > 7 * sim[2]

RECURSIVE FindRelatedFrom(_, _, _)
FindRelatedFrom(graph, knowledge_data, i) ==
    IF i > Len(graph) THEN <<>>
    ELSE (IF Exceeds07(_calculate_similarity(knowledge_data, graph[i][2]))
          THEN <<graph[i][1]>> ELSE <<>>)
         \o FindRelatedFrom(graph, knowledge_data, i + 1)

\* _find_related_knowledge over every known item instead of the items of the
\* graph.
_find_related_knowledge_anywhere(graph, knowledge_data) ==
    FindRelatedFrom([i \in 1..Len(Universe) |-> <<i, Universe[i]>>],
                    knowledge_data, 1)

_find_related_knowledge(graph, knowledge_data) ==
    FindRelatedFrom(graph, knowledge_data, 1)

\* The `for related_id in related_ids` loop.  related_ids is the very list
\* stored as connections[knowledge_id], so the loop reads the list it may
\* be appending to: `i` is the iterator's index into the live list.
RECURSIVE BackEdgeLoop(_, _, _)
BackEdgeLoop(connections, knowledge_id, i) ==
    IF i > Len(connections[knowledge_id])
    THEN [connections |-> connections, raised |-> "none"]
    ELSE LET related_id == connections[knowledge_id][i]
         IN  IF related_id \in DOMAIN connections
             THEN IF Len(connections[related_id]) >= MemoryCap
                  THEN [connections |-> connections, raised |-> "MemoryError"]
                  ELSE BackEdgeLoop(
                         [connections EXCEPT ![related_id] = Append(@, knowledge_id)],
                         knowledge_id, i + 1)
             ELSE BackEdgeLoop(connections, knowledge_id, i + 1)

update_bidirectional(connections, knowledge_id) ==
    BackEdgeLoop(connections, knowledge_id, 1)

update_contributor_score(scores, knowledge_data) ==
    IF "contributor" \in DOMAIN knowledge_data /\ knowledge_data.contributor # ""
    THEN LET contributor == knowledge_data.contributor
             current_score == IF DictHas(scores, contributor)
                              THEN DictGet(scores, contributor) ELSE 0
         IN  DictSet(scores, contributor, current_score + 1)
    ELSE scores

\* timedelta.days: floor of the seconds over 86400.
DaysBetween(now, at) ==
    IF now >= at THEN (now - at) \div SecondsPerDay
    ELSE -(((at - now) + SecondsPerDay - 1) \div SecondsPerDay)

\* np.log1p(usage_count) in 1/Unit, for the counts of this model.
Log1p(usage_count) ==
    CASE usage_count = 0 -> 0
      [] usage_count = 1 -> (6931 * Unit) \div 10000
      [] OTHER           -> (10986 * Unit) \div 10000

\* The score computed at insertion; `raised` when the computation raises
\* (a timestamp that does not parse, a division by zero): the error is
\* logged and no score is written.
InitialScore(knowledge_data, now) ==
    LET failed == [raised |-> TRUE, score |-> 0]
    IN  IF ~("timestamp" \in DOMAIN knowledge_data) THEN failed
        ELSE IF ~knowledge_data.timestamp.iso THEN failed
        ELSE LET days == DaysBetween(now, knowledge_data.timestamp.at)
                 usage_count == IF "usage_count" \in DOMAIN knowledge_data
                                THEN knowledge_data.usage_count ELSE 0
             IN  IF 1 + days = 0 THEN failed
                 ELSE IF 1 + days > 0
                 THEN [raised |-> FALSE,
                       score  |-> (4 * Unit) \div (10 * (1 + days))
                                  + (6 * Log1p(usage_count)) \div 10]
                 ELSE [raised |-> FALSE,
                       score  |-> -((4 * Unit) \div (10 * (-(1 + days))))
                                  + (6 * Log1p(usage_count)) \div 10]

SetScore(metrics, knowledge_id, score) ==
    [k \in DOMAIN metrics \cup {knowledge_id} |->
        IF k = knowledge_id THEN score ELSE metrics[k]]

_calculate_performance_metrics(pathway, knowledge_id, now) ==
    LET knowledge_data == DictGet(pathway.knowledge_graph, knowledge_id)
        initial == InitialScore(knowledge_data, now)
    IN  IF initial.raised THEN pathway
        ELSE [pathway EXCEPT !.performance_metrics =
                                SetScore(@, knowledge_id, initial.score)]

\* add_knowledge with the score computed in a `finally`: it is written even
\* when the linking loop raised.
add_knowledge_rescoring(pathway, knowledge_id, knowledge_data, now) ==
    LET graph == DictSet(pathway.knowledge_graph, knowledge_id, knowledge_data)
        related_ids == _find_related_knowledge(graph, knowledge_data)
        connections ==
            [k \in DOMAIN pathway.connections \cup {knowledge_id} |->
                IF k = knowledge_id THEN related_ids
                ELSE pathway.connections[k]]
        loop == update_bidirectional(connections, knowledge_id)
        linked == [pathway EXCEPT !.knowledge_graph = graph,
                                  !.connections = loop.connections]
    IN  [pathway |-> _calculate_performance_metrics(linked, knowledge_id, now),
         raised |-> loop.raised]

\* The pathway after the call and the exception the call ends with.
add_knowledge(pathway, knowledge_id, knowledge_data, now) ==
    LET graph == DictSet(pathway.knowledge_graph, knowledge_id, knowledge_data)
        related_ids == _find_related_knowledge(graph, knowledge_data)
        connections ==
            [k \in DOMAIN pathway.connections \cup {knowledge_id} |->
                IF k = knowledge_id THEN related_ids
                ELSE pathway.connections[k]]
        loop == update_bidirectional(connections, knowledge_id)
        linked == [pathway EXCEPT !.knowledge_graph = graph,
                                  !.connections = loop.connections]
    IN  IF loop.raised # "none"
        THEN [pathway |-> linked, raised |-> loop.raised]
        ELSE [pathway |->
                _calculate_performance_metrics(
                  [linked EXCEPT !.contributor_scores =
                     update_contributor_score(@, knowledge_data)],
                  knowledge_id, now),
              raised |-> "none"]

\* adjacency_matrix[i, j] = 1 iff the j-th key of knowledge_graph is in the
\* connections of the i-th key.
AdjacencyMatrix(pathway) ==
    LET keys == DictKeys(pathway.knowledge_graph)
        n    == Len(keys)
    IN  [i \in 1..n |-> [j \in 1..n |->
           IF /\ keys[i] \in DOMAIN pathway.connections
              /\ keys[j] \in SeqToSet(pathway.connections[keys[i]])
           THEN 1 ELSE 0]]

\* v is an eigenvector of the transposed matrix for the eigenvalue lambda.
IsEigenvector(matrix, v, lambda) ==
    LET n == Len(matrix)
    IN  \A i \in 1..n :
          SumOver([j \in 1..n |-> matrix[j][i] * v[j]], 1..n) = lambda * v[i]

\* The non-zero 0/1 vectors that are eigenvectors of the transposed matrix.
EigenPairs(matrix) ==
    LET n == Len(matrix)
    IN  {pair \in (0..n) \X ([1..n -> {0, 1}] \ {[i \in 1..n |-> 0]}) :
           IsEigenvector(matrix, pair[2], pair[1])}

\* (matrix.T)^k applied to v: power iteration, which converges to the
\* eigenvector of the largest eigenvalue of an irreducible matrix.
RECURSIVE PowerIterate(_, _, _)
PowerIterate(matrix, v, k) ==
    IF k = 0 THEN v
    ELSE LET n == Len(matrix)
         IN  PowerIterate(matrix,
                          [i \in 1..n |->
                              SumOver([j \in 1..n |-> matrix[j][i] * v[j]], 1..n)],
                          k - 1)

\* eigenvectors[:, eigenvalues.argmax()]: an eigenvector of the largest
\* eigenvalue.  Which vector of its eigenspace LAPACK returns is not fixed
\* by the code: any of them is a possible result.  A matrix without a 0/1
\* eigenvector (graphs of two items: [[1,1],[1,0]] and [[0,1],[1,1]], whose
\* largest eigenvalue is the golden ratio) has a one-dimensional dominant
\* eigenspace, approximated by PowerSteps steps of power iteration.
DominantEigenvectors(matrix) ==
    LET pairs == EigenPairs(matrix)
    IN  IF pairs = {}
        THEN {PowerIterate(matrix, [i \in 1..Len(matrix) |-> 1], PowerSteps)}
        ELSE {pair[2] : pair \in {q \in pairs : \A r \in pairs : r[1] <= q[1]}}

\* _calculate_centrality dividing by the number of items at line 129, not
\* by the sum of the entries.
_calculate_centrality_averaged(pathway) ==
    LET keys == DictKeys(pathway.knowledge_graph)
        n    == Len(keys)
    IN  IF n = 0 THEN {<<>>}
        ELSE {[k \in SeqToSet(keys) |->
                 LET i == CHOOSE j \in 1..n : keys[j] = k
                 IN  (v[i] * Unit) \div n]
              : v \in DominantEigenvectors(AdjacencyMatrix(pathway))}

\* The results _calculate_centrality can return: for each key the entry of
\* the eigenvector over the sum of the entries, in 1/Unit.
_calculate_centrality(pathway) ==
    LET keys == DictKeys(pathway.knowledge_graph)
        n    == Len(keys)
    IN  IF n = 0 THEN {<<>>}
        ELSE {[k \in SeqToSet(keys) |->
                 LET i == CHOOSE j \in 1..n : keys[j] = k
                 IN  (v[i] * Unit) \div SumOver(v, 1..n)]
              : v \in DominantEigenvectors(AdjacencyMatrix(pathway))}

\* new = 0.7 * old + 0.3 * centrality
Smooth(current_performance, centrality) ==
    (7 * current_performance + 3 * centrality) \div 10

GetScore(metrics, knowledge_id) ==
    IF knowledge_id \in DOMAIN metrics THEN metrics[knowledge_id] ELSE 0

update_performance(metrics, centrality_scores) ==
    [k \in DOMAIN metrics \cup DOMAIN centrality_scores |->
        IF k \in DOMAIN centrality_scores
        THEN Smooth(GetScore(metrics, k), centrality_scores[k])
        ELSE metrics[k]]

\* MeetsThreshold with `>` for the `>=` of line 167.
MeetsThreshold_strict(score, metrics, rounds_up) ==
    LET n   == Cardinality(DOMAIN metrics)
        sum == SumOver(metrics, DOMAIN metrics)
    IN  n > 0 /\ n * score > sum

\* score >= np.mean(values).  The float mean of three or more values can
\* round above their exact mean (np.mean([0.1, 0.1, 0.1]) > 0.1): rounds_up
\* says whether it does, which matters for a score equal to the exact mean.
MeetsThreshold(score, metrics, rounds_up) ==
    LET n   == Cardinality(DOMAIN metrics)
        sum == SumOver(metrics, DOMAIN metrics)
    IN  /\ n > 0
        /\ \/ n * score > sum
           \/ n * score = sum /\ ~(rounds_up /\ n >= 3)

RECURSIVE SelectSeq2(_, _, _, _)
SelectSeq2(s, i, metrics, rounds_up) ==
    IF i > Len(s) THEN <<>>
    ELSE (IF MeetsThreshold(GetScore(metrics, s[i]), metrics, rounds_up)
          THEN <<s[i]>> ELSE <<>>)
         \o SelectSeq2(s, i + 1, metrics, rounds_up)

\* _prune_connections that also drops the adjacency of the items whose own
\* score is below the threshold.
_prune_connections_dropping(pathway, rounds_up) ==
    [pathway EXCEPT !.connections =
        [k \in {id \in DOMAIN pathway.connections :
                   MeetsThreshold(GetScore(pathway.performance_metrics, id),
                                  pathway.performance_metrics, rounds_up)} |->
            SelectSeq2(pathway.connections[k], 1,
                       pathway.performance_metrics, rounds_up)]]

_prune_connections(pathway, rounds_up) ==
    [pathway EXCEPT !.connections =
        [k \in DOMAIN pathway.connections |->
            SelectSeq2(pathway.connections[k], 1,
                       pathway.performance_metrics, rounds_up)]]

\* optimize_pathways that ends after the loop of lines 69-73, as a task
\* cancelled or resumed elsewhere before line 76 would leave it.
optimize_pathways_unpruned(pathway, centrality_scores, rounds_up) ==
    [pathway EXCEPT !.performance_metrics =
        update_performance(@, centrality_scores)]

optimize_pathways(pathway, centrality_scores, rounds_up) ==
    _prune_connections(
        [pathway EXCEPT !.performance_metrics =
            update_performance(@, centrality_scores)],
        rounds_up)

\* list.sort(key, reverse=True) on <<key, value>> pairs: stable and
\* descending, x goes after the entries whose key is >= its own.
RECURSIVE InsertDesc(_, _)
InsertDesc(sorted, x) ==
    IF sorted = <<>> THEN <<x>>
    ELSE IF Head(sorted)[1] >= x[1]
         THEN <<Head(sorted)>> \o InsertDesc(Tail(sorted), x)
         ELSE <<x>> \o sorted

RECURSIVE SortDescFrom(_, _)
SortDescFrom(s, i) ==
    IF i = 0 THEN <<>>
    ELSE InsertDesc(SortDescFrom(s, i - 1), s[i])

\* s sorted by keys[i], the key of s[i].
SortDesc(s, keys) ==
    LET sorted == SortDescFrom([i \in 1..Len(s) |-> <<keys[i], s[i]>>], Len(s))
    IN  [i \in 1..Len(s) |-> sorted[i][2]]

\* _matches_query without the `key not in knowledge_data` test of line 156.
_matches_query_lenient(knowledge_data, query_params) ==
    \A key \in DOMAIN query_params :
        key \in DOMAIN knowledge_data =>
            knowledge_data[key] = query_params[key]

_matches_query(knowledge_data, query_params) ==
    \A key \in DOMAIN query_params :
        /\ key \in DOMAIN knowledge_data
        /\ knowledge_data[key] = query_params[key]

\* {**knowledge_data, 'performance_score': score}: a new dict.
Annotated(knowledge_data, score) ==
    WithField(knowledge_data, "performance_score", score)

RECURSIVE MatchedFrom(_, _, _)
MatchedFrom(pathway, query_params, i) ==
    IF i > Len(pathway.knowledge_graph) THEN <<>>
    ELSE LET knowledge_id   == pathway.knowledge_graph[i][1]
             knowledge_data == pathway.knowledge_graph[i][2]
         IN  (IF _matches_query(knowledge_data, query_params)
              THEN <<Annotated(knowledge_data,
                               GetScore(pathway.performance_metrics, knowledge_id))>>
              ELSE <<>>)
             \o MatchedFrom(pathway, query_params, i + 1)

pathway_query_knowledge(pathway, query_params) ==
    LET matched_knowledge == MatchedFrom(pathway, query_params, 1)
    IN  SortDesc(matched_knowledge,
                 [i \in 1..Len(matched_knowledge) |->
                     matched_knowledge[i].performance_score])

TopN == 10

get_top_contributors(pathway) ==
    LET contributors ==
            SortDesc(pathway.contributor_scores,
                     [i \in 1..Len(pathway.contributor_scores) |->
                         pathway.contributor_scores[i][2]])
    IN  SubSeq(contributors, 1,
               IF Len(contributors) < TopN THEN Len(contributors) ELSE TopN)

(***************************************************************************)
(* KnowledgeValidator                                                      *)
(***************************************************************************)
required_fields ==
    {"content", "domain", "contributor", "timestamp", "version", "metadata",
     "dependencies"}

\* The threshold in hundredths (settings.VALIDATION_THRESHOLD = 0.85).
VALIDATION_THRESHOLD == 85
CACHE_TTL == 3600
max_size == 1048576

ContentHas(content, key) == \E i \in 1..Len(content) : content[i][1] = key

ContentGet(content, key) ==
    content[CHOOSE i \in 1..Len(content) : content[i][1] = key][2]

\* _validate_structure without the test of lines 58-59.
_validate_structure_lenient(knowledge_data) ==
    /\ "content" \in DOMAIN knowledge_data
    /\ ContentHas(knowledge_data.content, "type")
    /\ "metadata" \in DOMAIN knowledge_data
    /\ knowledge_data.metadata.isdict
    /\ "timestamp" \in DOMAIN knowledge_data
    /\ knowledge_data.timestamp.iso

_validate_structure(knowledge_data) ==
    /\ \A field \in required_fields : field \in DOMAIN knowledge_data
    /\ ContentHas(knowledge_data.content, "type")
    /\ knowledge_data.metadata.isdict
    /\ knowledge_data.timestamp.iso

\* The type scores are fractions <<numerator, denominator>>.
_validate_model_weights(content) ==
    \* every value of `weights` numeric: the values of this model are
    \* strings, so only an absent or empty `weights` dict passes
    IF ~ContentHas(content, "weights") THEN <<1, 1>>
    ELSE LET weights == ContentGet(content, "weights")
         IN  IF "dict" \in DOMAIN weights /\ Len(weights.dict) = 0
             THEN <<1, 1>> ELSE <<0, 1>>

_validate_data_entry(entry) ==
    \A field \in {"input", "output", "metadata"} : field \in SeqToSet(entry)

\* valid_entries / len(data); 0.0 when `data` is absent, empty or not a list.
_validate_training_data(content) ==
    IF ~ContentHas(content, "data") THEN <<0, 1>>
    ELSE LET data == ContentGet(content, "data")
         IN  IF "list" \notin DOMAIN data THEN <<0, 1>>
             ELSE IF Len(data.list) = 0 THEN <<0, 1>>
             ELSE <<Cardinality({i \in 1..Len(data.list) :
                                   _validate_data_entry(data.list[i])}),
                    Len(data.list)>>

_validate_algorithm(content) ==
    IF ~ContentHas(content, "algorithm") THEN <<0, 1>>
    ELSE LET algorithm == ContentGet(content, "algorithm")
         IN  IF /\ "dict" \in DOMAIN algorithm
                /\ \A field \in {"name", "parameters", "complexity"} :
                      \E j \in 1..Len(algorithm.dict) : algorithm.dict[j][1] = field
             THEN <<1, 1>> ELSE <<0, 1>>

\* 1.0 - content_size / max_size, or 0.0 above max_size, over max_size.
_validate_content_size(content) ==
    LET content_size == JsonLength(content)
    IN  IF content_size > max_size THEN <<0, max_size>>
        ELSE <<max_size - content_size, max_size>>

TypeScore(content) ==
    LET content_type == IF ContentHas(content, "type")
                        THEN ContentGet(content, "type") ELSE Str("")
    IN  IF content_type = Str("model_weights") THEN _validate_model_weights(content)
        ELSE IF content_type = Str("training_data") THEN _validate_training_data(content)
        ELSE IF content_type = Str("algorithm") THEN _validate_algorithm(content)
        ELSE <<0, 1>>

ContentPasses_strict(knowledge_data, threshold) ==
    LET type_score == TypeScore(knowledge_data.content)
        size_score == _validate_content_size(knowledge_data.content)
    IN  100 * (type_score[1] * size_score[2] + size_score[1] * type_score[2])
           > 2 * threshold * type_score[2] * size_score[2]

\* sum(validation_scores) / len(validation_scores) >= threshold, the
\* threshold in hundredths.
ContentPasses(knowledge_data, threshold) ==
    LET type_score == TypeScore(knowledge_data.content)
        size_score == _validate_content_size(knowledge_data.content)
    IN  100 * (type_score[1] * size_score[2] + size_score[1] * type_score[2])
           >= 2 * threshold * type_score[2] * size_score[2]

Digits == {"0", "1", "2", "3", "4", "5", "6", "7", "8", "9"}

\* version.split('.'): the parts between the dots.
RECURSIVE SplitDots(_, _, _)
SplitDots(chars, i, part) ==
    IF i > Len(chars) THEN <<part>>
    ELSE IF chars[i] = "." THEN <<part>> \o SplitDots(chars, i + 1, <<>>)
    ELSE SplitDots(chars, i + 1, Append(part, chars[i]))

\* Characters outside 0-9 for which str.isdigit() is true.
OtherDigits == {"U+00B2"}

\* str.isdigit(): non-empty and every character a digit character.
IsDigit(part) ==
    Len(part) > 0 /\ \A i \in 1..Len(part) : part[i] \in Digits \cup OtherDigits

VersionOk(version) ==
    LET version_parts == SplitDots(version, 1, <<>>)
    IN  /\ Len(version_parts) = 3
        /\ \A i \in 1..Len(version_parts) : IsDigit(version_parts[i])

\* knowledge_data.get('version', '')
_validate_version(knowledge_data) ==
    VersionOk(IF "version" \in DOMAIN knowledge_data
              THEN knowledge_data.version ELSE <<>>)

_validate_dependency_version(dependency) == VersionOk(dependency.version)

_validate_dependencies(knowledge_data) ==
    LET dependencies == IF "dependencies" \in DOMAIN knowledge_data
                        THEN knowledge_data.dependencies ELSE <<>>
    IN  \A i \in 1..Len(dependencies) :
        LET dependency == dependencies[i]
        IN  /\ "id" \in DOMAIN dependency
            /\ "version" \in DOMAIN dependency
            /\ _validate_dependency_version(dependency)

\* The stages after the cache check.
Pipeline(knowledge_data, threshold) ==
    /\ _validate_structure(knowledge_data)
    /\ ContentPasses(knowledge_data, threshold)
    /\ _validate_dependencies(knowledge_data)
    /\ _validate_version(knowledge_data)

\* Lines 24-27: what the call finds in the cache under the key of the item.
CacheLookup(cache, knowledge_data, now) ==
    LET cache_key == _generate_cache_key(knowledge_data)
    IN  IF cache_key \notin DOMAIN cache THEN "none"
        ELSE IF now - cache[cache_key][1] < CACHE_TTL THEN "fresh"
        ELSE "expired"

\* validate_knowledge whose cache hit writes the entry anew with the time
\* of the check.
validate_knowledge_refreshing(cache, knowledge_data, now, threshold) ==
    LET cache_key == _generate_cache_key(knowledge_data)
    IN  IF cache_key \in DOMAIN cache /\ now - cache[cache_key][1] < CACHE_TTL
        THEN [result |-> cache[cache_key][2],
              cache  |-> [cache EXCEPT ![cache_key] = <<now, @[2]>>]]
        ELSE IF Pipeline(knowledge_data, threshold)
        THEN [result |-> TRUE,
              cache  |-> [k \in DOMAIN cache \cup {cache_key} |->
                            IF k = cache_key THEN <<now, TRUE>> ELSE cache[k]]]
        ELSE [result |-> FALSE, cache |-> cache]

\* validate_knowledge that caches the outcome of the pipeline whatever it is.
validate_knowledge_caching_failures(cache, knowledge_data, now, threshold) ==
    LET cache_key == _generate_cache_key(knowledge_data)
    IN  IF cache_key \in DOMAIN cache /\ now - cache[cache_key][1] < CACHE_TTL
        THEN [result |-> cache[cache_key][2], cache |-> cache]
        ELSE LET result == Pipeline(knowledge_data, threshold)
             IN  [result |-> result,
                  cache  |-> [k \in DOMAIN cache \cup {cache_key} |->
                                IF k = cache_key THEN <<now, result>>
                                ELSE cache[k]]]

\* The result of the call and the cache after it.
validate_knowledge(cache, knowledge_data, now, threshold) ==
    LET cache_key == _generate_cache_key(knowledge_data)
    IN  IF cache_key \in DOMAIN cache /\ now - cache[cache_key][1] < CACHE_TTL
        THEN [result |-> cache[cache_key][2], cache |-> cache]
        ELSE IF Pipeline(knowledge_data, threshold)
        THEN [result |-> TRUE,
              cache  |-> [k \in DOMAIN cache \cup {cache_key} |->
                            IF k = cache_key THEN <<now, TRUE>> ELSE cache[k]]]
        ELSE [result |-> FALSE, cache |-> cache]

(***************************************************************************)
(* KnowledgeExchange: the state of the process.                            *)
(***************************************************************************)
VARIABLES
    learning_pathways,  \* dict: domain -> LearningPathway
    validation_cache,   \* validator.validation_cache: key -> <<time, result>>
    now,                \* datetime.now(), in seconds
    pending,            \* submit_knowledge tasks awaiting the ledger
    query_task,         \* the query_knowledge task awaiting the ledger, or <<>>
    cycle,              \* the _run_exchange_cycle task
    ledger_calls,       \* number of submit_knowledge_transaction calls made
    calls,              \* numbers of cycle iterations and clock ticks so far
    rate_limits,        \* app.state.rate_limits: client ip -> its record
    last                \* the step taken last and how it ended

vars == <<learning_pathways, validation_cache, now, pending, query_task,
          cycle, ledger_calls, calls, rate_limits, last>>

\* asyncio.sleep(300) after an iteration, asyncio.sleep(60) after an error.
IntervalSeconds == 300
BackoffSeconds == 60

\* The cycle task between two iterations: created and not yet run
\* (seconds = 0) or in asyncio.sleep(seconds).
Sleeping(seconds) ==
    [pc |-> "sleeping", position |-> 0, size |-> 0, queue |-> <<>>,
     sleep |-> seconds]

\* The filters of the queries of this model.
QueryParams ==
    {<<>>, [contributor |-> "bob"]}

Init ==
    /\ learning_pathways = <<>>
    /\ validation_cache = <<>>
    /\ now = 0
    /\ pending = <<>>
    /\ query_task = <<>>
    /\ cycle = Sleeping(0)
    /\ ledger_calls = 0
    /\ calls = [cycles |-> 0, ticks |-> 0]
    /\ rate_limits = <<>>
    /\ last = [op |-> "init"]

RemoveAt(s, i) == SubSeq(s, 1, i - 1) \o SubSeq(s, i + 1, Len(s))

\* submit_knowledge with lines 48-50 moved before the validation: a
\* rejected item still registers a pathway for its domain.
submit_knowledge_registering(knowledge_data) ==
    LET validation == validate_knowledge(validation_cache, knowledge_data, now,
                                         VALIDATION_THRESHOLD)
        knowledge_id == _generate_knowledge_id(knowledge_data)
        signature == _create_signature(knowledge_data)
        domain == knowledge_data.domain
    IN  /\ Len(pending) < MaxPending
        /\ validation.result => ledger_calls < MaxSubmits
        /\ calls' = calls
        /\ validation_cache' = validation.cache
        /\ learning_pathways' =
              IF DictHas(learning_pathways, domain) THEN learning_pathways
              ELSE DictSet(learning_pathways, domain, NewPathway(domain))
        /\ IF validation.result
           THEN /\ pending' = Append(pending,
                                     [knowledge_data |-> knowledge_data,
                                      knowledge_id   |-> knowledge_id,
                                      signature      |-> signature])
                /\ ledger_calls' = ledger_calls + 1
                /\ last' = [op |-> "submit", knowledge_id |-> knowledge_id,
                            phase |-> "awaiting", value |-> "none",
                            ledger |-> "called"]
           ELSE /\ UNCHANGED <<rate_limits, pending, ledger_calls>>
                /\ last' = [op |-> "submit", knowledge_id |-> knowledge_id,
                            phase |-> "raised", value |-> "ValueError",
                            ledger |-> "not_called"]
        /\ UNCHANGED <<rate_limits, now, query_task, cycle>>

(***************************************************************************)
(* submit_knowledge, up to the ledger call: validation, id and signature.  *)
(* A rejected item ends the call with ValueError; an accepted one leaves   *)
(* the task suspended in submit_knowledge_transaction.                     *)
(***************************************************************************)
submit_knowledge(knowledge_data) ==
    LET validation == validate_knowledge(validation_cache, knowledge_data, now,
                                         VALIDATION_THRESHOLD)
        knowledge_id == _generate_knowledge_id(knowledge_data)
        signature == _create_signature(knowledge_data)
    IN  /\ Len(pending) < MaxPending
        /\ validation.result => ledger_calls < MaxSubmits
        /\ calls' = calls
        /\ validation_cache' = validation.cache
        /\ IF validation.result
           THEN /\ pending' = Append(pending,
                                     [knowledge_data |-> knowledge_data,
                                      knowledge_id   |-> knowledge_id,
                                      signature      |-> signature])
                /\ ledger_calls' = ledger_calls + 1
                /\ last' = [op |-> "submit", knowledge_id |-> knowledge_id,
                            phase |-> "awaiting", value |-> "none",
                            ledger |-> "called"]
           ELSE /\ UNCHANGED <<rate_limits, pending, ledger_calls>>
                /\ last' = [op |-> "submit", knowledge_id |-> knowledge_id,
                            phase |-> "raised", value |-> "ValueError",
                            ledger |-> "not_called"]
        /\ UNCHANGED <<rate_limits, learning_pathways, now, query_task, cycle>>

\* AddToPathway without the test of line 49: the domain always gets a new
\* LearningPathway.
AddToPathway_replacing(pathways, knowledge_id, knowledge_data, time) ==
    LET domain == knowledge_data.domain
        registry == DictSet(pathways, domain, NewPathway(domain))
        added == add_knowledge(DictGet(registry, domain), knowledge_id,
                               knowledge_data, time)
    IN  [learning_pathways |-> DictSet(registry, domain, added.pathway),
         raised |-> added.raised]

\* AddToPathway with the test of line 49 made before the ledger wait: a
\* task that saw no pathway makes its own LearningPathway, and when the
\* domain has been registered meanwhile the item goes to a pathway that the
\* registry does not hold.
AddToPathway_detached(pathways, knowledge_id, knowledge_data, time) ==
    LET domain == knowledge_data.domain
        added == add_knowledge(NewPathway(domain), knowledge_id,
                               knowledge_data, time)
    IN  [learning_pathways |->
            IF DictHas(pathways, domain) THEN pathways
            ELSE DictSet(pathways, domain, added.pathway),
         raised |-> added.raised]

\* The registry with the item added to the pathway of its domain (created
\* if the domain is new), and the exception add_knowledge ends with.
AddToPathway(pathways, knowledge_id, knowledge_data, time) ==
    LET domain == knowledge_data.domain
        registry == IF DictHas(pathways, domain) THEN pathways
                    ELSE DictSet(pathways, domain, NewPathway(domain))
        added == add_knowledge(DictGet(registry, domain), knowledge_id,
                               knowledge_data, time)
    IN  [learning_pathways |-> DictSet(registry, domain, added.pathway),
         raised |-> added.raised]

\* submit_knowledge_transaction returns transaction_id to the i-th waiting
\* task: the rest of submit_knowledge runs.
submit_knowledge_returns(i, transaction_id) ==
    /\ i \in 1..Len(pending)
    /\ LET task == pending[i]
           done == AddToPathway(learning_pathways, task.knowledge_id,
                                task.knowledge_data, now)
       IN  /\ learning_pathways' = done.learning_pathways
           /\ last' = IF done.raised = "none"
                      THEN [op |-> "submit", knowledge_id |-> task.knowledge_id,
                            phase |-> "returned", value |-> transaction_id,
                            ledger |-> transaction_id]
                      ELSE [op |-> "submit", knowledge_id |-> task.knowledge_id,
                            phase |-> "raised", value |-> done.raised,
                            ledger |-> transaction_id]
    /\ pending' = RemoveAt(pending, i)
    /\ UNCHANGED <<rate_limits, validation_cache, now, query_task, cycle, ledger_calls, calls>>

\* submit_knowledge_fails with lines 48-50 moved before the ledger call:
\* the pathway of the domain is registered although the ledger failed.
submit_knowledge_fails_registering(i) ==
    /\ i \in 1..Len(pending)
    /\ last' = [op |-> "submit", knowledge_id |-> pending[i].knowledge_id,
                phase |-> "raised", value |-> "LedgerError",
                ledger |-> "raised"]
    /\ learning_pathways' =
          LET domain == pending[i].knowledge_data.domain
          IN  IF DictHas(learning_pathways, domain) THEN learning_pathways
              ELSE DictSet(learning_pathways, domain, NewPathway(domain))
    /\ pending' = RemoveAt(pending, i)
    /\ UNCHANGED <<rate_limits, validation_cache, now, query_task, cycle, ledger_calls, calls>>

\* submit_knowledge_transaction raises in the i-th waiting task: the error
\* is logged and raised again.
submit_knowledge_fails(i) ==
    /\ i \in 1..Len(pending)
    /\ last' = [op |-> "submit", knowledge_id |-> pending[i].knowledge_id,
                phase |-> "raised", value |-> "LedgerError",
                ledger |-> "raised"]
    /\ pending' = RemoveAt(pending, i)
    /\ UNCHANGED <<rate_limits, learning_pathways, validation_cache, now, query_task, cycle,
                   ledger_calls, calls>>

(***************************************************************************)
(* query_knowledge.  _verify_knowledge answers False at once for a result  *)
(* without signature and awaits verify_transaction for the others.         *)
(***************************************************************************)
HasSignature(result) ==
    "signature" \in DOMAIN result /\ result.signature # ""

RECURSIVE NextSigned(_, _)
NextSigned(results, i) ==
    IF i > Len(results) \/ HasSignature(results[i]) THEN i
    ELSE NextSigned(results, i + 1)

\* The task after the results before `i` are settled: returned when none
\* is left, waiting for the ledger's answer for results[i] otherwise.
\* `answer` is the ledger's answer that resumed the task ("none" at the call).
QueryStep(domain, query_params, results, i, answers, verified, answer) ==
    IF i > Len(results)
    THEN /\ query_task' = <<>>
         /\ last' = [op |-> "query", domain |-> domain,
                     query_params |-> query_params, phase |-> "returned",
                     value |-> verified, answer |-> answer]
    ELSE /\ query_task' = [domain |-> domain, query_params |-> query_params,
                           results |-> results, index |-> i,
                           answers |-> answers, verified_results |-> verified]
         /\ last' = [op |-> "query", domain |-> domain,
                     query_params |-> query_params, phase |-> "awaiting",
                     value |-> <<>>, answer |-> answer]

query_knowledge(domain, query_params) ==
    /\ query_task = <<>>
    /\ IF ~DictHas(learning_pathways, domain)
       THEN QueryStep(domain, query_params, <<>>, 1, <<>>, <<>>, "none")
       ELSE LET results == pathway_query_knowledge(
                               DictGet(learning_pathways, domain), query_params)
            IN  QueryStep(domain, query_params, results,
                          NextSigned(results, 1), <<>>, <<>>, "none")
    /\ UNCHANGED <<rate_limits, learning_pathways, validation_cache, now, pending, cycle,
                   ledger_calls, calls>>

\* The answers the ledger has given, with `answer` for the result at `index`.
WithAnswer(answers, index, answer) ==
    [k \in DOMAIN answers \cup {index} |->
        IF k = index THEN answer ELSE answers[k]]

\* verify_transaction_returns without the `except` of line 103: only the
\* answer False drops the result.
verify_transaction_returns_trusting(answer) ==
    /\ query_task # <<>>
    /\ LET t == query_task
           verified == IF answer # "false"
                       THEN Append(t.verified_results, t.results[t.index])
                       ELSE t.verified_results
       IN  QueryStep(t.domain, t.query_params, t.results,
                     NextSigned(t.results, t.index + 1),
                     WithAnswer(t.answers, t.index, answer), verified,
                     answer)
    /\ UNCHANGED <<rate_limits, learning_pathways, validation_cache, now, pending, cycle,
                   ledger_calls, calls>>

\* verify_transaction answers for the result the query waits on; an
\* exception inside it is answered as False.
verify_transaction_returns(answer) ==
    /\ query_task # <<>>
    /\ LET t == query_task
           verified == IF answer = "true"
                       THEN Append(t.verified_results, t.results[t.index])
                       ELSE t.verified_results
       IN  QueryStep(t.domain, t.query_params, t.results,
                     NextSigned(t.results, t.index + 1),
                     WithAnswer(t.answers, t.index, answer), verified,
                     answer)
    /\ UNCHANGED <<rate_limits, learning_pathways, validation_cache, now, pending, cycle,
                   ledger_calls, calls>>

(***************************************************************************)
(* _run_exchange_cycle.  One iteration optimizes every pathway in the      *)
(* order of the registry and pays its top contributors; the task is        *)
(* suspended while a reward call is in flight.                             *)
(***************************************************************************)
\* The attributes SolanaClient.__init__ sets: there is no `token_manager`.
SolanaClientAttributes ==
    {"client", "network", "logger", "_keypair", "_initialized"}

LamportsPerToken == 1000000000

\* One turn of the loop of _distribute_rewards up to its await: the call of
\* token_manager.distribute_rewards, or the AttributeError that the
\* expression self.solana_client.token_manager raises.
RewardAttempt(contributor, score) ==
    IF "token_manager" \in SolanaClientAttributes
    THEN [contributor |-> contributor, outcome |-> "called",
          reward_amount |-> score * LamportsPerToken]
    ELSE [contributor |-> contributor, outcome |-> "AttributeError",
          reward_amount |-> score * LamportsPerToken]

\* The attempts of _distribute_rewards(pathway), in the order it makes them.
_distribute_rewards(pathway) ==
    LET contributors == get_top_contributors(pathway)
    IN  [i \in 1..Len(contributors) |->
            RewardAttempt(contributors[i][1], contributors[i][2])]

\* For each pathway the centrality vector and the rounding of the mean that
\* its optimize_pathways call meets.
RECURSIVE CycleChoices(_, _)
CycleChoices(pathways, i) ==
    IF i > Len(pathways) THEN {<<>>}
    ELSE LET here == {<<c, up>> :
                        c \in _calculate_centrality(pathways[i][2]),
                        up \in IF Len(pathways[i][2].knowledge_graph) >= 3
                               THEN BOOLEAN ELSE {FALSE}}
         IN  {<<h>> \o rest : h \in here, rest \in CycleChoices(pathways, i + 1)}

\* The for loop from the i-th pathway on, up to the first reward call.
\* choice[k] is the choice for the k-th pathway counted from i.
RECURSIVE RunCycleFrom(_, _, _)
RunCycleFrom(pathways, i, choice) ==
    IF i > Len(pathways)
    THEN [learning_pathways |-> pathways, position |-> i, queue |-> <<>>]
    ELSE LET optimized == optimize_pathways(pathways[i][2], Head(choice)[1],
                                            Head(choice)[2])
             contributors == get_top_contributors(optimized)
             after == [pathways EXCEPT ![i] = <<pathways[i][1], optimized>>]
         IN  IF /\ contributors # <<>>
                /\ \A i2 \in 1..Len(contributors) :
                      _distribute_rewards(optimized)[i2].outcome = "called"
             THEN [learning_pathways |-> after, position |-> i,
                   queue |-> contributors]
             ELSE RunCycleFrom(after, i + 1, Tail(choice))

\* The edges of every graph: <<domain, u, v>> for v in connections[u].
Edges(pathways) ==
    UNION {{<<pathways[i][1], u, v>> :
               v \in SeqToSet(pathways[i][2].connections[u])}
           : <<i, u>> \in {p \in (1..Len(pathways)) \X KnowledgeIds :
                              p[2] \in DOMAIN pathways[p[1]][2].connections}}

\* _run_exchange_cycle without its `while True`: the task ends after the
\* iteration.
CycleAfter_once(run, size) ==
    /\ learning_pathways' = run.learning_pathways
    /\ cycle' = IF run.queue = <<>>
                THEN [pc |-> "done", position |-> 0, size |-> 0,
                      queue |-> <<>>, sleep |-> 0]
                ELSE [pc |-> "rewarding", position |-> run.position,
                      size |-> size, queue |-> run.queue, sleep |-> 0]

CycleAfter(run, size) ==
    /\ learning_pathways' = run.learning_pathways
    /\ cycle' = IF run.queue = <<>>
                THEN Sleeping(IntervalSeconds)
                ELSE [pc |-> "rewarding", position |-> run.position,
                      size |-> size, queue |-> run.queue, sleep |-> 0]

_run_exchange_cycle(reward_fails) ==
    /\ cycle.pc \in {"sleeping", "rewarding"}
    /\ IF cycle.pc = "sleeping"
       THEN \* the sleep is over: a new iteration begins
            /\ calls.cycles < MaxCycles
            /\ calls' = [calls EXCEPT !.cycles = @ + 1]
            /\ \E choice \in CycleChoices(learning_pathways, 1) :
                  CycleAfter(RunCycleFrom(learning_pathways, 1, choice),
                             Len(learning_pathways))
            /\ last' = [op |-> "cycle", phase |-> "iteration",
                        pruned |-> Edges(learning_pathways)
                                      \ Edges(learning_pathways')]
       ELSE \* distribute_rewards returns or raises (logged) for Head(queue)
            /\ calls' = calls
            /\ last' = [op |-> "cycle", phase |-> "reward",
                        contributor |-> Head(cycle.queue)[1],
                        failed |-> reward_fails]
            /\ IF Len(cycle.queue) > 1
               THEN /\ cycle' = [cycle EXCEPT !.queue = Tail(@)]
                    /\ learning_pathways' = learning_pathways
               ELSE IF Len(learning_pathways) # cycle.size
               THEN \* RuntimeError: dictionary changed size during
                    \* iteration; logged, then sleep(60)
                    /\ cycle' = Sleeping(BackoffSeconds)
                    /\ learning_pathways' = learning_pathways
               ELSE \E choice \in CycleChoices(learning_pathways,
                                               cycle.position + 1) :
                      CycleAfter(RunCycleFrom(learning_pathways,
                                              cycle.position + 1, choice),
                                 cycle.size)
    /\ UNCHANGED <<rate_limits, validation_cache, now, pending, query_task, ledger_calls>>

\* Time passes.
Tick ==
    /\ calls.ticks < MaxTicks
    /\ calls' = [calls EXCEPT !.ticks = @ + 1]
    /\ now' = now + TickSeconds
    /\ last' = [op |-> "tick"]
    /\ UNCHANGED <<rate_limits, learning_pathways, validation_cache, pending, query_task,
                   cycle, ledger_calls>>

Next ==
    \/ \E knowledge_data \in Items : submit_knowledge(knowledge_data)
    \/ \E i \in 1..MaxPending, transaction_id \in TxIds :
          submit_knowledge_returns(i, transaction_id)
    \/ \E i \in 1..MaxPending : submit_knowledge_fails(i)
    \/ \E domain \in Domains, query_params \in QueryParams :
          query_knowledge(domain, query_params)
    \/ \E answer \in {"true", "false", "raise"} :
          verify_transaction_returns(answer)
    \/ \E reward_fails \in BOOLEAN : _run_exchange_cycle(reward_fails)

Spec == Init /\ [][Next]_vars

\* The same with the clock running.
NextTimed == Next \/ Tick

SpecTimed == Init /\ [][NextTimed]_vars

(***************************************************************************)
(* Two submit_knowledge calls in flight at once: both have passed the      *)
(* validator and wait in submit_knowledge_transaction, and the ledger      *)
(* answers them in any order.                                              *)
(***************************************************************************)
InitConcurrent ==
    \E first \in Items, second \in Items :
        LET one == validate_knowledge(<<>>, first, 0, VALIDATION_THRESHOLD)
            two == validate_knowledge(one.cache, second, 0, VALIDATION_THRESHOLD)
            task(knowledge_data) ==
                [knowledge_data |-> knowledge_data,
                 knowledge_id   |-> _generate_knowledge_id(knowledge_data),
                 signature      |-> _create_signature(knowledge_data)]
        IN  /\ one.result /\ two.result
            /\ learning_pathways = <<>>
            /\ validation_cache = two.cache
            /\ now = 0
            /\ pending = <<task(first), task(second)>>
            /\ query_task = <<>>
            /\ cycle = Sleeping(0)
            /\ ledger_calls = 2
            /\ calls = [cycles |-> 0, ticks |-> 0]
            /\ rate_limits = <<>>
            /\ last = [op |-> "init"]

NextConcurrent ==
    \/ \E i \in 1..Len(pending), transaction_id \in TxIds :
          submit_knowledge_returns(i, transaction_id)
    \/ \E i \in 1..Len(pending) : submit_knowledge_fails(i)
    \/ \E reward_fails \in BOOLEAN : _run_exchange_cycle(reward_fails)

SpecConcurrent == InitConcurrent /\ [][NextConcurrent]_vars

(***************************************************************************)
(* The validator alone: validate_knowledge called with any dict of the     *)
(* model, at any time.                                                     *)
(***************************************************************************)
validate_knowledge_returns(knowledge_data) ==
    LET validation == validate_knowledge(validation_cache, knowledge_data, now,
                                         VALIDATION_THRESHOLD)
    IN  /\ validation_cache' = validation.cache
        /\ last' = [op |-> "validate", knowledge_data |-> knowledge_data,
                    value |-> validation.result,
                    found |-> CacheLookup(validation_cache, knowledge_data, now)]
        /\ UNCHANGED <<rate_limits, learning_pathways, now, pending, query_task, cycle,
                       ledger_calls, calls>>

NextValidate ==
    \/ \E knowledge_data \in ValidatorInputs :
          validate_knowledge_returns(knowledge_data)
    \/ Tick

SpecValidate == Init /\ [][NextValidate]_vars

\* The validator called with dicts that json.dumps does not tell apart.
NextJsonTwins ==
    \/ \E knowledge_data \in JsonTwins :
          validate_knowledge_returns(knowledge_data)
    \/ Tick

SpecJsonTwins == Init /\ [][NextJsonTwins]_vars

\* KnowledgeValidator(validation_threshold).validate_knowledge(knowledge_data):
\* a validator made for the call, its cache empty.
validate_knowledge_with(knowledge_data, validation_threshold) ==
    LET validation == validate_knowledge(<<>>, knowledge_data, now,
                                         validation_threshold)
    IN  /\ validation_cache' = validation.cache
        /\ last' = [op |-> "content", knowledge_data |-> knowledge_data,
                    threshold |-> validation_threshold,
                    value |-> validation.result]
        /\ UNCHANGED <<rate_limits, learning_pathways, now, pending, query_task, cycle,
                       ledger_calls, calls>>

NextContent ==
    \E knowledge_data \in SeqToSet(ContentInputs),
       validation_threshold \in Thresholds :
        validate_knowledge_with(knowledge_data, validation_threshold)

SpecContent == Init /\ [][NextContent]_vars

(***************************************************************************)
(* The life of the cycle task: start_exchange_cycle creates it,            *)
(* stop_exchange_cycle cancels it and waits for it to end.  _exchange_task *)
(* is None while cycle.pc = "none" and a finished task while "done".       *)
(***************************************************************************)
InitCycle ==
    /\ learning_pathways = <<>>
    /\ validation_cache = <<>>
    /\ now = 0
    /\ pending = <<>>
    /\ query_task = <<>>
    /\ cycle = [pc |-> "none", position |-> 0, size |-> 0, queue |-> <<>>,
                sleep |-> 0]
    /\ ledger_calls = 0
    /\ calls = [cycles |-> 0, ticks |-> 0]
    /\ rate_limits = <<>>
    /\ last = [op |-> "init"]

\* Taken while no task of this exchange is running.
start_exchange_cycle ==
    /\ cycle.pc \in {"none", "done"}
    /\ cycle' = Sleeping(0)
    /\ last' = [op |-> "start"]
    /\ UNCHANGED <<rate_limits, learning_pathways, validation_cache, now, pending,
                   query_task, ledger_calls, calls>>

\* The task after cancel() has reached it: in sleep(300) or at a reward
\* call the CancelledError is caught at line 90 and the loop is left; in
\* sleep(60), inside the handler of line 92, it ends the task as cancelled.
CancelledTask ==
    [pc |-> "done", position |-> 0, size |-> 0, queue |-> <<>>, sleep |-> 0]

\* stop_exchange_cycle that forgets the task without cancelling it.
stop_exchange_cycle_detached ==
    /\ cycle.pc # "none"
    /\ cycle' = cycle
    /\ last' = [op |-> "stop", was |-> cycle.pc, slept |-> cycle.sleep]
    /\ UNCHANGED <<rate_limits, learning_pathways, validation_cache, now, pending,
                   query_task, ledger_calls, calls>>

\* `if self._exchange_task:` cancel it, gather it, return.
stop_exchange_cycle ==
    /\ cycle.pc # "none"
    /\ cycle' = CancelledTask
    /\ last' = [op |-> "stop", was |-> cycle.pc, slept |-> cycle.sleep]
    /\ UNCHANGED <<rate_limits, learning_pathways, validation_cache, now, pending,
                   query_task, ledger_calls, calls>>

NextCycle ==
    \/ \E knowledge_data \in Items : submit_knowledge(knowledge_data)
    \/ \E i \in 1..MaxPending, transaction_id \in TxIds :
          submit_knowledge_returns(i, transaction_id)
    \/ \E i \in 1..MaxPending : submit_knowledge_fails(i)
    \/ \E reward_fails \in BOOLEAN : _run_exchange_cycle(reward_fails)
    \/ start_exchange_cycle
    \/ stop_exchange_cycle

SpecCycle == InitCycle /\ [][NextCycle]_vars

(***************************************************************************)
(* The cycle task on a registry that earlier submissions have left: the    *)
(* task, start and stop only.  The event loop resumes a task whose sleep   *)
(* is over (asyncio runs every ready task), hence the weak fairness of     *)
(* the task's step.                                                        *)
(***************************************************************************)
\* The submissions that reached add_knowledge, in their order: at most
\* MaxSubmits accepted dicts, each once.
SeedSubmissions ==
    UNION {{q \in [1..k -> {it \in Items :
                               validate_knowledge(<<>>, it, 0,
                                                  VALIDATION_THRESHOLD).result}] :
              \A i, j \in 1..k : i # j => q[i] # q[j]}
           : k \in 0..MaxSubmits}

RECURSIVE RegistryAfter(_, _)
RegistryAfter(submissions, n) ==
    IF n = 0 THEN <<>>
    ELSE AddToPathway(RegistryAfter(submissions, n - 1),
                      _generate_knowledge_id(submissions[n]),
                      submissions[n], 0).learning_pathways

InitCycleFair ==
    /\ \E submissions \in SeedSubmissions :
          learning_pathways = RegistryAfter(submissions, Len(submissions))
    /\ validation_cache = <<>>
    /\ now = 0
    /\ pending = <<>>
    /\ query_task = <<>>
    /\ cycle = [pc |-> "none", position |-> 0, size |-> 0, queue |-> <<>>,
                sleep |-> 0]
    /\ ledger_calls = 0
    /\ calls = [cycles |-> 0, ticks |-> 0]
    /\ rate_limits = <<>>
    /\ last = [op |-> "init"]

NextCycleFair ==
    \/ \E reward_fails \in BOOLEAN : _run_exchange_cycle(reward_fails)
    \/ start_exchange_cycle
    \/ stop_exchange_cycle

SpecCycleFair ==
    /\ InitCycleFair
    /\ [][NextCycleFair]_vars
    /\ WF_vars(\E reward_fails \in BOOLEAN : _run_exchange_cycle(reward_fails))

\* The same registries with submissions going on beside the task.
SpecCycleSeeded == InitCycleFair /\ [][NextCycle]_vars

(***************************************************************************)
(* _calculate_similarity alone, on any two dicts of SimilarityInputs: the  *)
(* items of the catalogue, items that differ from ItemA outside the        *)
(* content or in one string of it, an item without content, one with the   *)
(* content {} and one with the pairs of UnknownContent in the other order. *)
(***************************************************************************)
SimilarityInputs ==
    Items
    \cup {ItemBadTimestamp, WithoutField(ItemA, "content"),
          BaseItem(<<>>, "ml", "alice"),
          BaseItem(AlgoContent("sort", "k"), "ml", "alice"),
          BaseItem(AlgoContent("scan", "k"), "nlp", "bob"),
          BaseItem(<< <<"payload", Str("x")>>, <<"type", Str("unknown_type")>> >>,
                   "ml", "alice"),
          BaseItem(<< <<"type", Str("algorithm")>> >>, "ml", "alice")}

_calculate_similarity_returns(data1, data2) ==
    /\ last' = [op |-> "similarity", data1 |-> data1, data2 |-> data2,
                value |-> _calculate_similarity(data1, data2)]
    /\ UNCHANGED <<rate_limits, learning_pathways, validation_cache, now, pending,
                   query_task, cycle, ledger_calls, calls>>

NextSimilarity ==
    \E data1 \in SimilarityInputs, data2 \in SimilarityInputs :
        _calculate_similarity_returns(data1, data2)

SpecSimilarity == Init /\ [][NextSimilarity]_vars

(***************************************************************************)
(* optimize_pathways called on the pathway of a domain at any time between *)
(* submissions: on the registered pathway, or on a LearningPathway just    *)
(* constructed (as the fixture of test_ai.py:21 makes one) when the domain *)
(* has none.  The scores are exact in 1/Unit for MaxCycles calls.          *)
(***************************************************************************)
optimize_pathways_returns(domain) ==
    LET pathway == IF DictHas(learning_pathways, domain)
                   THEN DictGet(learning_pathways, domain)
                   ELSE NewPathway(domain)
    IN  /\ calls.cycles < MaxCycles
        /\ calls' = [calls EXCEPT !.cycles = @ + 1]
        /\ \E centrality_scores \in _calculate_centrality(pathway),
              rounds_up \in IF Len(pathway.knowledge_graph) >= 3
                            THEN BOOLEAN ELSE {FALSE} :
              LET optimized == optimize_pathways(pathway, centrality_scores,
                                                 rounds_up)
              IN  /\ learning_pathways' =
                        IF DictHas(learning_pathways, domain)
                        THEN DictSet(learning_pathways, domain, optimized)
                        ELSE learning_pathways
                  /\ last' = [op |-> "optimize", domain |-> domain,
                              keys |-> DictKeySet(pathway.knowledge_graph),
                              centrality |-> centrality_scores,
                              before |-> pathway.performance_metrics,
                              after |-> optimized.performance_metrics]
        /\ UNCHANGED <<rate_limits, validation_cache, now, pending, query_task, cycle,
                       ledger_calls>>

NextOptimize ==
    \/ \E knowledge_data \in Items : submit_knowledge(knowledge_data)
    \/ \E i \in 1..MaxPending, transaction_id \in TxIds :
          submit_knowledge_returns(i, transaction_id)
    \/ \E i \in 1..MaxPending : submit_knowledge_fails(i)
    \/ \E domain \in Domains : optimize_pathways_returns(domain)

SpecOptimize == Init /\ [][NextOptimize]_vars

(***************************************************************************)
(* start_exchange_cycle called at any time.  Line 20 creates a task and    *)
(* stores it in _exchange_task whatever that attribute held: a task that   *)
(* was running stays in the event loop with no reference to it left in the *)
(* exchange.  calls.orphans counts these tasks; `cycle` is the task that   *)
(* _exchange_task refers to.                                               *)
(***************************************************************************)
InitRestart ==
    /\ learning_pathways = <<>>
    /\ validation_cache = <<>>
    /\ now = 0
    /\ pending = <<>>
    /\ query_task = <<>>
    /\ cycle = [pc |-> "none", position |-> 0, size |-> 0, queue |-> <<>>,
                sleep |-> 0]
    /\ ledger_calls = 0
    /\ calls = [cycles |-> 0, ticks |-> 0, orphans |-> 0]
    /\ rate_limits = <<>>
    /\ last = [op |-> "init"]

\* start_exchange_cycle while the task of _exchange_task is running (it
\* waits in a sleep, or was created and has not run yet).
start_exchange_cycle_again ==
    /\ cycle.pc = "sleeping"
    /\ calls.orphans < MaxRestarts
    /\ cycle' = Sleeping(0)
    /\ calls' = [calls EXCEPT !.orphans = @ + 1]
    /\ last' = [op |-> "restart"]
    /\ UNCHANGED <<rate_limits, learning_pathways, validation_cache, now, pending,
                   query_task, ledger_calls>>

\* An iteration of _run_exchange_cycle in a task that _exchange_task no
\* longer refers to: stop_exchange_cycle cannot cancel it.
orphan_cycle ==
    /\ calls.orphans > 0
    /\ calls.cycles < MaxCycles
    /\ calls' = [calls EXCEPT !.cycles = @ + 1]
    /\ \E choice \in CycleChoices(learning_pathways, 1) :
          LET run == RunCycleFrom(learning_pathways, 1, choice)
          IN  /\ run.queue = <<>>
              /\ learning_pathways' = run.learning_pathways
    /\ last' = [op |-> "orphan_cycle"]
    /\ UNCHANGED <<rate_limits, validation_cache, now, pending, query_task, cycle,
                   ledger_calls>>

NextRestart ==
    \/ NextCycle
    \/ start_exchange_cycle_again
    \/ orphan_cycle

SpecRestart == InitRestart /\ [][NextRestart]_vars

(***************************************************************************)
(* Properties.  `last` names the step that led to the current state, so a  *)
(* property of a step reads last' with the state before and after it.      *)
(***************************************************************************)
\* The pathway registered under `domain`, a new one if there is none.
PathwayOf(pathways, domain) ==
    IF DictHas(pathways, domain) THEN DictGet(pathways, domain)
    ELSE NewPathway(domain)

\* a is b with some entries left out.
IsSubList(a, b) ==
    \E f \in [1..Len(a) -> 1..Len(b)] :
        /\ \A i \in 1..Len(a) : a[i] = b[f[i]]
        /\ \A i, j \in 1..Len(a) : i < j => f[i] < f[j]

\* C1: when the validator has accepted the item and the ledger's submit
\* returns transaction id t, submit_knowledge returns t and the pathway of
\* the item's domain holds the item under its derived id; from an
\* orchestrator without pathways that graph then holds exactly one item and
\* the item's contributor has score 1.  The ledger is called before the
\* graph is touched.
C1_SubmitSuccess ==
    [][/\ (last'.op = "submit" /\ last'.ledger = "called") =>
              learning_pathways' = learning_pathways
       /\ (last'.op = "submit" /\ last'.ledger \in TxIds) =>
              LET item  == Universe[last'.knowledge_id]
                  after == PathwayOf(learning_pathways', item.domain)
              IN  /\ last'.phase = "returned"
                  /\ last'.value = last'.ledger
                  /\ DictHas(learning_pathways', item.domain)
                  /\ DictHas(after.knowledge_graph, last'.knowledge_id)
                  /\ DictGet(after.knowledge_graph, last'.knowledge_id) = item
                  /\ learning_pathways = <<>> =>
                        /\ Len(after.knowledge_graph) = 1
                        /\ item.contributor # "" =>
                              /\ DictHas(after.contributor_scores,
                                         item.contributor)
                              /\ DictGet(after.contributor_scores,
                                         item.contributor) = 1
      ]_vars

\* C2: for every graph state and every item with a contributor c,
\* add_knowledge(id, item) completes without error, id then maps to item and
\* contributor_scores[c] is its previous value (0 if none) plus 1, the other
\* contributors' scores being unchanged.
C2_AddIncrementsContributor ==
    \A item \in {it \in Items : it.contributor # ""} :
        LET before   == PathwayOf(learning_pathways, item.domain)
            id       == _generate_knowledge_id(item)
            added    == add_knowledge(before, id, item, now)
            scores   == added.pathway.contributor_scores
            c        == item.contributor
            previous == IF DictHas(before.contributor_scores, c)
                        THEN DictGet(before.contributor_scores, c) ELSE 0
        IN  /\ added.raised = "none"
            /\ DictHas(added.pathway.knowledge_graph, id)
            /\ DictGet(added.pathway.knowledge_graph, id) = item
            /\ DictHas(scores, c)
            /\ DictGet(scores, c) = previous + 1
            /\ \A other \in DictKeySet(before.contributor_scores) \ {c} :
                  /\ DictHas(scores, other)
                  /\ DictGet(scores, other) =
                        DictGet(before.contributor_scores, other)
            /\ DictKeySet(scores) = DictKeySet(before.contributor_scores) \cup {c}

\* C3: when the validator rejects the item, submit_knowledge raises
\* ValueError, the ledger's submit is not called, no pathway is created and
\* no pathway state changes.
C3_RejectionLeavesNoTrace ==
    [][(last'.op = "submit" /\ last'.ledger \in {"called", "not_called"}) =>
          LET item == Universe[last'.knowledge_id]
              accepted == validate_knowledge(validation_cache, item, now,
                                             VALIDATION_THRESHOLD).result
          IN  ~accepted =>
                 /\ last'.phase = "raised"
                 /\ last'.value = "ValueError"
                 /\ last'.ledger = "not_called"
                 /\ pending' = pending
                 /\ ledger_calls' = ledger_calls
                 /\ learning_pathways' = learning_pathways
      ]_vars

\* A rejected submission while a pathway with an item exists.
C3_Witness ==
    /\ last.op = "submit"
    /\ last.value = "ValueError"
    /\ learning_pathways # <<>>
    /\ ~DictHas(learning_pathways, "nlp")

\* C4: when the ledger's submit fails, submit_knowledge fails with that
\* error and the registry and every pathway are as before: no pathway is
\* created for an unseen domain and the item is in no graph.
C4_LedgerFailureLeavesNoTrace ==
    [][(last'.op = "submit" /\ last'.ledger = "raised") =>
          /\ last'.phase = "raised"
          /\ last'.value = "LedgerError"
          /\ learning_pathways' = learning_pathways
      ]_vars

\* The ledger failed for an item of a domain that has no pathway.
C4_Witness ==
    /\ last.op = "submit"
    /\ last.ledger = "raised"
    /\ last.value = "LedgerError"
    /\ ~DictHas(learning_pathways, Universe[last.knowledge_id].domain)
    /\ learning_pathways # <<>>

C6_AdjacencySymmetric ==
    calls.cycles = 0 =>
        \A i \in 1..Len(learning_pathways) :
            LET connections == learning_pathways[i][2].connections
            IN  \A u, v \in DOMAIN connections :
                    (v \in SeqToSet(connections[u]))
                        <=> (u \in SeqToSet(connections[v]))

\* C7: every id in an adjacency list is a key of the knowledge_graph of the
\* same pathway.
C7_AdjacencyWithinGraph ==
    \A i \in 1..Len(learning_pathways) :
        LET pathway == learning_pathways[i][2]
        IN  \A u \in DOMAIN pathway.connections :
                \A v \in SeqToSet(pathway.connections[u]) :
                    DictHas(pathway.knowledge_graph, v)

\* A graph of two items with an edge between them, after adds and an
\* optimize_pathways.
C7_Witness ==
    /\ last.op = "cycle"
    /\ \E i \in 1..Len(learning_pathways) :
          LET pathway == learning_pathways[i][2]
          IN  /\ Len(pathway.knowledge_graph) = 2
              /\ \E u \in DOMAIN pathway.connections :
                    \E v \in SeqToSet(pathway.connections[u]) : v # u

\* C8: once an id has a performance score, every later change of it is a
\* smoothing step 0.7 * old + 0.3 * centrality of optimize_pathways; no
\* step, a repeated add or submit of the id included, overwrites it.
C8_ScoresOnlySmoothed ==
    [][\A i \in 1..Len(learning_pathways) :
          LET before == learning_pathways[i][2]
              after  == learning_pathways'[i][2]
          IN  \A k \in DOMAIN before.performance_metrics :
                 /\ k \in DOMAIN after.performance_metrics
                 /\ after.performance_metrics[k] # before.performance_metrics[k]
                       => /\ last'.op = "cycle"
                          /\ \E c \in _calculate_centrality(before) :
                                /\ k \in DOMAIN c
                                /\ after.performance_metrics[k] =
                                      (7 * before.performance_metrics[k]
                                         + 3 * c[k]) \div 10
      ]_vars

\* An id that had a score was submitted and added again, and has kept it.
C8_Witness ==
    /\ last.op = "submit"
    /\ last.ledger \in TxIds
    /\ \E i \in 1..Len(learning_pathways) :
          LET metrics == learning_pathways[i][2].performance_metrics
          IN  /\ last.knowledge_id \in DOMAIN metrics
              /\ metrics[last.knowledge_id] > 0

\* C9: optimize_pathways never removes or changes an entry of
\* knowledge_graph, never removes a key of connections and never adds an
\* edge: each adjacency list after it is a sub-list of the list before.
C9_OptimizeOnlyRemovesEdges ==
    [][last'.op = "cycle" =>
          /\ Len(learning_pathways') = Len(learning_pathways)
          /\ \A i \in 1..Len(learning_pathways) :
                LET before == learning_pathways[i][2]
                    after  == learning_pathways'[i][2]
                IN  /\ after.knowledge_graph = before.knowledge_graph
                    /\ DOMAIN after.connections = DOMAIN before.connections
                    /\ \A k \in DOMAIN before.connections :
                          IsSubList(after.connections[k], before.connections[k])
      ]_vars

\* optimize_pathways has pruned an edge: an item's list has lost the item's
\* own id, which every add puts there.
C9_Witness ==
    /\ last.op = "cycle"
    /\ \E i \in 1..Len(learning_pathways) :
          LET connections == learning_pathways[i][2].connections
          IN  \E k \in DOMAIN connections :
                 /\ connections[k] # <<>>
                 /\ k \notin SeqToSet(connections[k])

C11_Filters ==
    {<<>>, [contributor |-> "bob"], [signature |-> "sigB"],
     [domain |-> "ml", contributor |-> "alice"], [contributor |-> ""]}

C11_Expected(pathway, filters) ==
    {WithField(pathway.knowledge_graph[i][2], "performance_score",
               IF pathway.knowledge_graph[i][1]
                     \in DOMAIN pathway.performance_metrics
               THEN pathway.performance_metrics[pathway.knowledge_graph[i][1]]
               ELSE 0)
     : i \in {j \in 1..Len(pathway.knowledge_graph) :
                 \A key \in DOMAIN filters :
                     /\ key \in DOMAIN pathway.knowledge_graph[j][2]
                     /\ pathway.knowledge_graph[j][2][key] = filters[key]}}

C11_QueryAnswer(pathways) ==
    \A d \in 1..Len(pathways) : \A filters \in C11_Filters :
        LET pathway == pathways[d][2]
            result  == pathway_query_knowledge(pathway, filters)
        IN  /\ SeqToSet(result) = C11_Expected(pathway, filters)
            /\ Len(result) = Cardinality(C11_Expected(pathway, filters))
            /\ \A i \in 1..Len(result) : \A j \in i..Len(result) :
                  result[i].performance_score >= result[j].performance_score

C11_QueryMatchesFilters ==
    [][/\ C11_QueryAnswer(learning_pathways')
       /\ last'.op = "query" => learning_pathways' = learning_pathways
       /\ (last'.op = "query" /\ query_task = <<>>
             /\ DictHas(learning_pathways, last'.domain))
          => LET results == pathway_query_knowledge(
                                DictGet(learning_pathways, last'.domain),
                                last'.query_params)
             IN  IF query_task' = <<>>
                 THEN \A i \in 1..Len(results) : ~HasSignature(results[i])
                 ELSE query_task'.results = results]_vars

\* A query for bob's items has been answered from a graph of two items, one
\* of them alice's and unsigned, with a score above 0 in the graph.
C11_Witness ==
    /\ last.op = "query"
    /\ last.query_params = [contributor |-> "bob"]
    /\ DictHas(learning_pathways, last.domain)
    /\ LET pathway == DictGet(learning_pathways, last.domain)
       IN  /\ Len(pathway.knowledge_graph) = 2
           /\ Len(pathway_query_knowledge(pathway, last.query_params)) = 1
           /\ Len(pathway_query_knowledge(pathway, [signature |-> "sigB"])) = 1
           /\ \E k \in DOMAIN pathway.performance_metrics :
                 pathway.performance_metrics[k] > 0


(***************************************************************************)
(* get_top_contributors as a function of contributor_scores: the graph     *)
(* starts with one of the score dicts below (a dict keeps the order in     *)
(* which its keys were first inserted) and the step applies the function.  *)
(***************************************************************************)
\* Contributor ids in ascending (string) order.
ContributorIds ==
    <<"alice", "bob", "carol", "dave", "erin", "frank", "grace", "heidi",
      "ivan", "judy", "mallory">>

MaxContributors == 3
MaxScore == 2

IdRank(contributor) ==
    CHOOSE i \in 1..Len(ContributorIds) : ContributorIds[i] = contributor

\* Every dict of at most MaxContributors of the first contributors, in any
\* insertion order, with scores 1..MaxScore; and two dicts of all the
\* contributors (more than TopN), inserted in ascending and descending order.
ScoreDicts ==
    LET few == {ContributorIds[i] :
                  i \in 1..(IF MaxContributors < Len(ContributorIds)
                            THEN MaxContributors ELSE Len(ContributorIds))}
        n   == Len(ContributorIds)
    IN  UNION {{d \in [1..k -> few \X (1..MaxScore)] :
                  \A i, j \in 1..k : i # j => d[i][1] # d[j][1]}
               : k \in 0..Cardinality(few)}
        \cup {[i \in 1..n |-> <<ContributorIds[i], 1 + (i % MaxScore)>>],
              [i \in 1..n |-> <<ContributorIds[n + 1 - i],
                                1 + ((n + 1 - i) % MaxScore)>>]}

InitTop ==
    /\ \E scores \in ScoreDicts :
          learning_pathways =
              << <<"ml", [NewPathway("ml") EXCEPT !.contributor_scores = scores]>> >>
    /\ validation_cache = <<>>
    /\ now = 0
    /\ pending = <<>>
    /\ query_task = <<>>
    /\ cycle = Sleeping(0)
    /\ ledger_calls = 0
    /\ calls = [cycles |-> 0, ticks |-> 0]
    /\ rate_limits = <<>>
    /\ last = [op |-> "init"]

get_top_contributors_returns ==
    /\ last' = [op |-> "top",
                value |-> get_top_contributors(DictGet(learning_pathways, "ml"))]
    /\ UNCHANGED <<rate_limits, learning_pathways, validation_cache, now, pending,
                   query_task, cycle, ledger_calls, calls>>

\* _distribute_rewards on the graph: the attempts made, the calls of
\* TokenManager.distribute_rewards among them and the errors logged.
_distribute_rewards_returns ==
    LET attempts == _distribute_rewards(DictGet(learning_pathways, "ml"))
    IN  /\ last' = [op |-> "rewards",
                    attempts |-> attempts,
                    ledger |-> SelectSeq(attempts,
                                         LAMBDA a : a.outcome = "called"),
                    logged |-> SelectSeq(attempts,
                                         LAMBDA a : a.outcome # "called")]
        /\ UNCHANGED <<rate_limits, learning_pathways, validation_cache, now, pending,
                       query_task, cycle, ledger_calls, calls>>

NextTop == get_top_contributors_returns \/ _distribute_rewards_returns

SpecTop == InitTop /\ [][NextTop]_vars

(***************************************************************************)
(* C12: get_top_contributors returns at most TopN <<contributor, score>>   *)
(* pairs, the contributors with the highest scores in non-increasing       *)
(* order, contributors with equal scores in order of contributor id: the   *)
(* result depends on the pairs of the score dict only, not on the order in *)
(* which the contributors were first added.                                *)
(***************************************************************************)
C12_TopContributorsOrder ==
    last.op = "top" =>
        LET scores == DictGet(learning_pathways, "ml").contributor_scores
            result == last.value
        IN  /\ Len(result) = (IF Len(scores) < TopN THEN Len(scores) ELSE TopN)
            /\ SeqToSet(result) \subseteq SeqToSet(scores)
            /\ \A i, j \in 1..Len(result) : i # j => result[i] # result[j]
            /\ \A pair \in SeqToSet(scores) \ SeqToSet(result) :
                  \A i \in 1..Len(result) : result[i][2] >= pair[2]
            /\ \A i, j \in 1..Len(result) :
                  i < j =>
                      \/ result[i][2] > result[j][2]
                      \/ /\ result[i][2] = result[j][2]
                         /\ IdRank(result[i][1]) < IdRank(result[j][1])
            /\ \A other \in ScoreDicts :
                  SeqToSet(other) = SeqToSet(scores) =>
                      get_top_contributors(
                          [NewPathway("ml") EXCEPT !.contributor_scores = other])
                      = result


(***************************************************************************)
(* C13: validate_knowledge returns a boolean and never raises; when an     *)
(* exception is raised while the cache key is generated (json.dumps        *)
(* raises) or in a stage (datetime.fromisoformat raises) the result is     *)
(* false and the cache is as it was.                                       *)
(***************************************************************************)
C13_Raises(knowledge_data) ==
    \/ ~JsonSerializable(knowledge_data)
    \/ /\ \A field \in required_fields : field \in DOMAIN knowledge_data
       /\ ContentHas(knowledge_data.content, "type")
       /\ knowledge_data.metadata.isdict
       /\ ~knowledge_data.timestamp.iso

C13_FailsClosed ==
    [][last'.op = "validate" =>
          /\ last'.value \in BOOLEAN
          /\ C13_Raises(last'.knowledge_data) =>
                /\ last'.value = FALSE
                /\ validation_cache' = validation_cache]_vars

(***************************************************************************)
(* C14: validate_knowledge is false for a dict without one of the seven    *)
(* required fields, in every state of the cache and at every time.         *)
(***************************************************************************)
C14_Lacking ==
    {knowledge_data \in ValidatorInputs :
        \E field \in {"content", "domain", "contributor", "timestamp",
                       "version", "metadata", "dependencies"} :
            field \notin DOMAIN knowledge_data}

C14_MissingFieldRejected ==
    /\ \A knowledge_data \in C14_Lacking :
          LET validation == validate_knowledge(validation_cache, knowledge_data,
                                               now, VALIDATION_THRESHOLD)
          IN  validation.result = FALSE /\ validation.cache = validation_cache
    /\ (last.op = "validate" /\ last.knowledge_data \in C14_Lacking)
          => last.value = FALSE

\* A dict without `contributor` has been rejected while the cache holds the
\* accepted dict it was made from, after time has passed.
C14_Witness ==
    /\ last.op = "validate"
    /\ last.knowledge_data = WithoutField(ItemA, "contributor")
    /\ last.value = FALSE
    /\ _generate_cache_key(ItemA) \in DOMAIN validation_cache
    /\ now > 0
    /\ Cardinality(C14_Lacking) = 7

(***************************************************************************)
(* C15: validate_knowledge is false when the version of the dict, or the   *)
(* version of one of its dependencies, is not three dot-separated          *)
(* non-negative integers, or a dependency has no version.                  *)
(***************************************************************************)
C15_IsInteger(part) ==
    /\ Len(part) > 0
    /\ \A i \in 1..Len(part) :
          part[i] \in {"0", "1", "2", "3", "4", "5", "6", "7", "8", "9"}

C15_WellFormed(chars) ==
    \E a, b \in 1..Len(chars) :
        /\ a < b /\ chars[a] = "." /\ chars[b] = "."
        /\ C15_IsInteger(SubSeq(chars, 1, a - 1))
        /\ C15_IsInteger(SubSeq(chars, a + 1, b - 1))
        /\ C15_IsInteger(SubSeq(chars, b + 1, Len(chars)))

C15_BadVersion(knowledge_data) ==
    \/ /\ "version" \in DOMAIN knowledge_data
       /\ ~C15_WellFormed(knowledge_data.version)
    \/ /\ "dependencies" \in DOMAIN knowledge_data
       /\ \E i \in 1..Len(knowledge_data.dependencies) :
             \/ "version" \notin DOMAIN knowledge_data.dependencies[i]
             \/ ~C15_WellFormed(knowledge_data.dependencies[i].version)

C15_BadVersionRejected ==
    (last.op = "validate" /\ C15_BadVersion(last.knowledge_data))
        => last.value = FALSE


(***************************************************************************)
(* C16: _distribute_rewards on a graph calls the ledger's                  *)
(* distribute_rewards once for each top contributor of the graph, in       *)
(* descending order of score; a failed call is logged and the later ones   *)
(* are still made.                                                         *)
(***************************************************************************)
C16_RewardEachTopContributor ==
    last.op = "rewards" =>
        LET contributors ==
                get_top_contributors(DictGet(learning_pathways, "ml"))
        IN  /\ Len(last.ledger) = Len(contributors)
            /\ \A i \in 1..Len(contributors) :
                  /\ last.ledger[i].contributor = contributors[i][1]
                  /\ last.ledger[i].reward_amount
                        = contributors[i][2] * LamportsPerToken
            /\ \A i, j \in 1..Len(last.ledger) :
                  i < j => last.ledger[i].reward_amount
                             >= last.ledger[j].reward_amount


(***************************************************************************)
(* C17: an iteration of the cycle never ends the task: after an iteration  *)
(* without error the task sleeps IntervalSeconds, after an error (the      *)
(* registry changed size under the loop) it sleeps BackoffSeconds, and     *)
(* only stop_exchange_cycle ends the task; a task that is not stopped      *)
(* does not stay for ever without starting another iteration (the number   *)
(* of iterations counts up to the bound MaxCycles, or the task is          *)
(* stopped, again and again).                                              *)
(***************************************************************************)
C17_IterationError ==
    /\ cycle.pc = "rewarding"
    /\ Len(cycle.queue) = 1
    /\ Len(learning_pathways) # cycle.size

RateLimit == 100
RateWindow == 60
BlockSeconds == 60

MaxRequests == 102
MaxApiTicks == 1
ApiTickSeconds == 60

\* The clients of this model: one with a valid bearer token, one without an
\* Authorization header (as the client of test_rate_limiting) and one with
\* the header of test_authentication.
Clients ==
    {[client_ip |-> "10.0.0.1", authorization |-> "Bearer valid"],
     [client_ip |-> "10.0.0.2", authorization |-> "none"],
     [client_ip |-> "10.0.0.3", authorization |-> "Invalid"]}

StatsPath == <<"api", "v1", "stats", "test_domain">>

\* request.url.path.startswith("/api/v1/public")
IsPublic(path) == Len(path) >= 3 /\ SubSeq(path, 1, 3) = <<"api", "v1", "public">>

Response(status_code, error, limits, passed) ==
    [status_code |-> status_code, error |-> error, rate_limits |-> limits,
     passed |-> passed]

\* The route behind the handlers answers; RequestContextHandler only logs
\* and adds headers.
RequestContextHandler(limits) == Response(200, "", limits, TRUE)

\* The response, or the HTTPException raised (as the response it becomes in
\* error_handler), with app.state.rate_limits after the call.
rate_limit_handler(limits, client_ip, current_time) ==
    LET known == IF client_ip \in DOMAIN limits THEN limits
                 ELSE [ip \in DOMAIN limits \cup {client_ip} |->
                          IF ip = client_ip
                          THEN [requests |-> <<>>, blocked_until |-> 0]
                          ELSE limits[ip]]
        client_limits == known[client_ip]
        recent == SelectSeq(client_limits.requests,
                            LAMBDA req_time : current_time - req_time < RateWindow)
    IN  IF current_time < client_limits.blocked_until
        THEN Response(429, "Too many requests. Please try again later.",
                      known, FALSE)
        ELSE IF Len(recent) >= RateLimit
        THEN Response(429, "Rate limit exceeded. Please try again in 1 minute.",
                      [known EXCEPT ![client_ip] =
                          [requests |-> recent,
                           blocked_until |-> current_time + BlockSeconds]],
                      FALSE)
        ELSE RequestContextHandler(
                 [known EXCEPT ![client_ip] =
                     [requests |-> Append(recent, current_time),
                      blocked_until |-> client_limits.blocked_until]])

auth_handler(limits, client, path, current_time) ==
    IF IsPublic(path)
    THEN rate_limit_handler(limits, client.client_ip, current_time)
    ELSE IF client.authorization = "none" \/ client.authorization = "Invalid"
    THEN Response(401, "Missing or invalid authentication token", limits, FALSE)
    ELSE IF client.authorization # "Bearer valid"
    THEN Response(401, "Invalid authentication token", limits, FALSE)
    ELSE rate_limit_handler(limits, client.client_ip, current_time)

\* error_handler turns an HTTPException into a JSON response with its
\* status and {"error": detail}; cors_handler adds headers.
error_handler(limits, client, path, current_time) ==
    auth_handler(limits, client, path, current_time)

InitApi ==
    /\ learning_pathways = <<>>
    /\ validation_cache = <<>>
    /\ now = 0
    /\ pending = <<>>
    /\ query_task = <<>>
    /\ cycle = Sleeping(0)
    /\ ledger_calls = 0
    /\ \E client \in Clients :
          calls = [cycles |-> 0, ticks |-> 0, client |-> client, sent |-> <<>>,
                   requests |-> 0]
    /\ rate_limits = <<>>
    /\ last = [op |-> "init"]

\* The client of this behaviour sends a request; calls.sent are the times
\* of its requests of the last RateWindow seconds.
http_request(path) ==
    LET response == error_handler(rate_limits, calls.client, path, now)
    IN  /\ calls.requests < MaxRequests
        /\ rate_limits' = response.rate_limits
        /\ calls' = [calls EXCEPT
                        !.requests = @ + 1,
                        !.sent = Append(SelectSeq(@, LAMBDA t : now - t < RateWindow),
                                        now)]
        /\ last' = [op |-> "request", client_ip |-> calls.client.client_ip,
                    status_code |-> response.status_code,
                    error |-> response.error, passed |-> response.passed]
        /\ UNCHANGED <<learning_pathways, validation_cache, now, pending,
                       query_task, cycle, ledger_calls>>

\* time.time() advances.
ApiTick ==
    /\ calls.ticks < MaxApiTicks
    /\ calls' = [calls EXCEPT !.ticks = @ + 1]
    /\ now' = now + ApiTickSeconds
    /\ last' = [op |-> "tick"]
    /\ UNCHANGED <<learning_pathways, validation_cache, pending, query_task,
                   cycle, ledger_calls, rate_limits>>

NextApi == http_request(StatsPath) \/ ApiTick

SpecApi == InitApi /\ [][NextApi]_vars

(***************************************************************************)
(* C19: the request that is a client's 101st within 60 seconds is answered *)
(* 429 "Rate limit exceeded", whether or not the client has a valid bearer *)
(* token; and at most 100 requests of a client within 60 seconds are       *)
(* passed on by rate_limit_handler.                                        *)
(***************************************************************************)
C19_RateLimited ==
    /\ (last.op = "request" /\ Len(calls.sent) = RateLimit + 1) =>
          /\ last.status_code = 429
          /\ last.error = "Rate limit exceeded. Please try again in 1 minute."
    /\ \A ip \in DOMAIN rate_limits :
          Len(SelectSeq(rate_limits[ip].requests,
                        LAMBDA t : now - t < RateWindow)) <= RateLimit


(***************************************************************************)
(* C20: add_knowledge ends normally for every graph and item: the loop of  *)
(* back-edges takes one turn for each related id, and the adjacency list   *)
(* of the new id has at most as many entries as the graph has items.       *)
(***************************************************************************)
C20_AddTerminates ==
    [][(last'.op = "submit" /\ last'.ledger \in TxIds) =>
          LET item    == Universe[last'.knowledge_id]
              before  == PathwayOf(learning_pathways, item.domain)
              after   == PathwayOf(learning_pathways', item.domain)
              related == _find_related_knowledge(
                             DictSet(before.knowledge_graph,
                                     last'.knowledge_id, item), item)
          IN  /\ last'.value # "MemoryError"
              /\ after.connections[last'.knowledge_id] = related
              /\ Len(after.connections[last'.knowledge_id])
                    <= Len(after.knowledge_graph)
      ]_vars

(***************************************************************************)
(* C21: after add_knowledge(id, item) the adjacency list of id consists of *)
(* exactly the ids of the items that were in the graph before the call and *)
(* whose similarity to the new item exceeds 0.7: id itself is not in its   *)
(* own list, and an item added to an empty graph has an empty list.        *)
(***************************************************************************)
C21_AdjacencyOfNewItem ==
    [][(last'.op = "submit" /\ last'.ledger \in TxIds) =>
          LET id       == last'.knowledge_id
              item     == Universe[id]
              before   == PathwayOf(learning_pathways, item.domain)
              after    == PathwayOf(learning_pathways', item.domain)
              existing == {i \in 1..Len(before.knowledge_graph) :
                              before.knowledge_graph[i][1] # id}
              expected == {before.knowledge_graph[i][1] : i \in
                             {j \in existing :
                                 Exceeds07(_calculate_similarity(
                                     item, before.knowledge_graph[j][2]))}}
          IN  /\ id \in DOMAIN after.connections
              /\ SeqToSet(after.connections[id]) = expected
              /\ id \notin SeqToSet(after.connections[id])
              /\ before.knowledge_graph = <<>> => after.connections[id] = <<>>
      ]_vars

(***************************************************************************)
(* C22: submit_knowledge records the signature it sent to the ledger on    *)
(* the item it stores, so that a later query_knowledge(domain, {}) during  *)
(* which verify_transaction answers True returns every item that a submit  *)
(* has stored in the graph of the domain.                                  *)
(***************************************************************************)
C22_SubmitThenQuery ==
    [][/\ (last'.op = "submit" /\ last'.ledger \in TxIds) =>
              LET id     == last'.knowledge_id
                  item   == Universe[id]
                  stored == DictGet(PathwayOf(learning_pathways',
                                              item.domain).knowledge_graph, id)
              IN  /\ HasSignature(stored)
                  /\ stored.signature = _create_signature(item)
       /\ (/\ last'.op = "query"
           /\ last'.phase = "returned"
           /\ last'.query_params = <<>>
           /\ last'.answer \in {"none", "true"}
           /\ query_task # <<>> =>
                  \A k \in DOMAIN query_task.answers :
                      query_task.answers[k] = "true") =>
              LET graph == PathwayOf(learning_pathways,
                                     last'.domain).knowledge_graph
              IN  \A k \in 1..Len(graph) :
                      \E j \in 1..Len(last'.value) :
                          \A f \in DOMAIN graph[k][2] :
                              /\ f \in DOMAIN last'.value[j]
                              /\ last'.value[j][f] = graph[k][2][f]
      ]_vars

(***************************************************************************)
(* C23: after the prune of optimize_pathways an adjacency list holds       *)
(* exactly the entries v it held before whose score is >= the mean of all  *)
(* scores, scores and mean being those after the smoothing of this call    *)
(* (the mean as np.mean returns it); u -> v is decided by the score of v   *)
(* alone, whatever becomes of v -> u.                                      *)
(***************************************************************************)
AtOrAboveMean(list, metrics, up) ==
    LET n   == Cardinality(DOMAIN metrics)
        sum == SumOver(metrics, DOMAIN metrics)
        s(v) == IF v \in DOMAIN metrics THEN metrics[v] ELSE 0
        keep(v) == \/ n * s(v) > sum
                   \/ (n * s(v) = sum /\ ~(up /\ n >= 3))
    IN  SelectSeq(list, keep)

C23_PrunePostcondition ==
    [][(last'.op = "cycle" /\ last'.phase = "iteration") =>
          \A i \in 1..Len(learning_pathways) :
              LET before == learning_pathways[i][2]
                  after  == learning_pathways'[i][2]
              IN  /\ DOMAIN after.connections = DOMAIN before.connections
                  /\ \E up \in BOOLEAN :
                        \A u \in DOMAIN before.connections :
                            after.connections[u] =
                               AtOrAboveMean(before.connections[u],
                                        after.performance_metrics, up)
      ]_vars

\* A prune has removed u -> v and kept v -> u.
C23_Witness ==
    /\ last.op = "cycle"
    /\ last.phase = "iteration"
    /\ \E i \in 1..Len(learning_pathways) :
          LET pathway == learning_pathways[i][2]
          IN  \E u, v \in DOMAIN pathway.connections :
                 /\ u # v
                 /\ <<pathway.domain, u, v>> \in last.pruned
                 /\ v \notin SeqToSet(pathway.connections[u])
                 /\ u \in SeqToSet(pathway.connections[v])

C25_OptimizeAtomic ==
    [][/\ last'.op \in {"start", "stop"} =>
              learning_pathways' = learning_pathways
       /\ \A i \in 1..Len(learning_pathways) :
             LET before == learning_pathways[i][2]
                 after  == learning_pathways'[i][2]
                 keys   == DictKeySet(before.knowledge_graph)
                 lost   == \E u \in DOMAIN before.connections :
                              SeqToSet(before.connections[u])
                                 \ SeqToSet(after.connections[u]) # {}
             IN  (after.performance_metrics # before.performance_metrics
                     \/ lost) =>
                    /\ last'.op = "cycle"
                    /\ \E c \in _calculate_centrality(before) :
                          \A k \in keys :
                             /\ k \in DOMAIN after.performance_metrics
                             /\ after.performance_metrics[k] =
                                   (7 * GetScore(before.performance_metrics, k)
                                      + 3 * c[k]) \div 10
                    /\ \E up \in BOOLEAN :
                          \A u \in DOMAIN before.connections :
                             after.connections[u] =
                                AtOrAboveMean(before.connections[u],
                                              after.performance_metrics, up)
      ]_vars

\* The cycle task has been cancelled after an iteration that smoothed the
\* scores of a graph and pruned an edge of it.
C25_Witness ==
    /\ last.op = "stop"
    /\ calls.cycles > 0
    /\ \E i \in 1..Len(learning_pathways) :
          LET pathway == learning_pathways[i][2]
          IN  /\ DOMAIN pathway.performance_metrics # {}
              /\ \E u \in DOMAIN pathway.connections :
                    u \notin SeqToSet(pathway.connections[u])

(***************************************************************************)
(* C26: in every graph the score of a contributor is the number of         *)
(* distinct ids of the graph whose item names that contributor (and a      *)
(* contributor without items has no score): submitting the same item again *)
(* changes no score.                                                       *)
(***************************************************************************)
C26_ContributorAccounting ==
    \A i \in 1..Len(learning_pathways) :
        LET pathway == learning_pathways[i][2]
            graph   == pathway.knowledge_graph
            scores  == pathway.contributor_scores
            ids(c)  == {graph[j][1] : j \in {k \in 1..Len(graph) :
                                                graph[k][2].contributor = c}}
            named   == {graph[j][2].contributor : j \in 1..Len(graph)} \ {""}
        IN  /\ DictKeySet(scores) = named
            /\ \A c \in named : DictGet(scores, c) = Cardinality(ids(c))

(***************************************************************************)
(* C27: every entry of the validation cache holds True.  A validate call   *)
(* that returns False leaves the cache as it is; a call that changes the   *)
(* cache returns True, has passed the structure, content, dependency and   *)
(* version stages, and writes the entry of its own item only.              *)
(***************************************************************************)
C27_OnlyPassesCached ==
    /\ [](\A k \in DOMAIN validation_cache : validation_cache[k][2] = TRUE)
    /\ [][last'.op = "validate" =>
             LET knowledge_data == last'.knowledge_data
                 cache_key      == _generate_cache_key(knowledge_data)
             IN  /\ last'.value = FALSE => validation_cache' = validation_cache
                 /\ validation_cache' # validation_cache =>
                       /\ last'.value = TRUE
                       /\ _validate_structure(knowledge_data)
                       /\ ContentPasses(knowledge_data, VALIDATION_THRESHOLD)
                       /\ _validate_dependencies(knowledge_data)
                       /\ _validate_version(knowledge_data)
                       /\ DOMAIN validation_cache' =
                             DOMAIN validation_cache \cup {cache_key}
                       /\ \A k \in DOMAIN validation_cache \ {cache_key} :
                             validation_cache'[k] = validation_cache[k]
        ]_vars

\* A call has returned False beside a cache that holds an entry.
C27_Witness ==
    /\ last.op = "validate"
    /\ last.value = FALSE
    /\ validation_cache # <<>>
    /\ _generate_cache_key(last.knowledge_data) \notin DOMAIN validation_cache

(***************************************************************************)
(* C28: a validate call uses the entry of its item only when less than     *)
(* 3600 seconds have passed since the entry was written: it then returns   *)
(* the stored boolean and leaves the entry, its time included, as it is.   *)
(* With an entry of 3600 seconds or more (or none) the pipeline runs, and  *)
(* on pass the entry is written with the current time.                     *)
(***************************************************************************)
C28_CacheExpiry ==
    [][last'.op = "validate" =>
          LET knowledge_data == last'.knowledge_data
              cache_key      == _generate_cache_key(knowledge_data)
              passes == /\ _validate_structure(knowledge_data)
                        /\ ContentPasses(knowledge_data, VALIDATION_THRESHOLD)
                        /\ _validate_dependencies(knowledge_data)
                        /\ _validate_version(knowledge_data)
          IN  IF /\ cache_key \in DOMAIN validation_cache
                 /\ now - validation_cache[cache_key][1] < 3600
              THEN /\ last'.value = validation_cache[cache_key][2]
                   /\ validation_cache' = validation_cache
              ELSE /\ last'.value = passes
                   /\ IF passes
                      THEN /\ cache_key \in DOMAIN validation_cache'
                           /\ validation_cache'[cache_key] = <<now, TRUE>>
                      ELSE validation_cache' = validation_cache
      ]_vars

\* A call has found an entry written 3600 seconds ago or earlier, has run
\* the pipeline and has written the entry with the current time.
C28_Witness ==
    /\ last.op = "validate"
    /\ last.found = "expired"
    /\ last.value = TRUE
    /\ validation_cache[_generate_cache_key(last.knowledge_data)][1] = now
    /\ now >= CACHE_TTL

(***************************************************************************)
(* C29: whatever validate calls came before, validate_knowledge returns    *)
(* for an item what the structure, content, dependency and version stages  *)
(* return for it with the validator's threshold: the cache changes no      *)
(* answer.                                                                 *)
(***************************************************************************)
C29_CacheTransparent ==
    last.op = "validate" =>
        last.value = (/\ _validate_structure(last.knowledge_data)
                      /\ ContentPasses(last.knowledge_data,
                                       VALIDATION_THRESHOLD)
                      /\ _validate_dependencies(last.knowledge_data)
                      /\ _validate_version(last.knowledge_data))


\* C30: the content stage passes an item iff the average of its type score
\* and its size score (1 - size/1048576 up to 1048576 characters, 0 above)
\* is at least the threshold; a content type other than model_weights,
\* training_data and algorithm scores 0.0, so that validation fails when the
\* threshold is above the size score, and always at the threshold 0.85.
C30_ContentArithmetic ==
    last.op = "content" =>
        LET content == last.knowledge_data.content
            size == JsonLength(content)
            known == ContentGet(content, "type") \in
                         {Str("model_weights"), Str("training_data"),
                          Str("algorithm")}
            \* in 1/1048576ths
            type_score == IF known THEN 1048576 ELSE 0
            size_score == IF size <= 1048576 THEN 1048576 - size ELSE 0
        IN  /\ last.value
                  = (100 * (type_score + size_score) >= 2 * last.threshold * 1048576)
            /\ (~known /\ last.threshold * 1048576 > 100 * size_score)
                  => ~last.value
            /\ (~known /\ last.threshold = 85) => ~last.value

\* An unknown content type of 1000 characters, size score above 0.85, is
\* rejected at the threshold 0.85 and accepted at the threshold 0.25.
C30_Witness ==
    /\ last.op = "content"
    /\ ContentGet(last.knowledge_data.content, "type") = Str("unknown_type")
    /\ JsonLength(last.knowledge_data.content) = 1000
    /\ last.threshold = 85
    /\ ~last.value
    /\ validate_knowledge(<<>>, last.knowledge_data, now, 25).result

\* C31: submissions in flight at once for a domain without a pathway, their
\* ledger waits ending in any order, leave one pathway for the domain; no
\* step replaces a registered pathway or loses an item of it; every
\* submission whose ledger call has returned (so every one that succeeds)
\* has its item in the pathway of its domain; and every item stored in the
\* pathway registered under a domain has that domain.
C31_OnePathwayPerDomain ==
    /\ [](/\ \A i, j \in 1..Len(learning_pathways) :
                learning_pathways[i][1] = learning_pathways[j][1] => i = j
          /\ \A i \in 1..Len(learning_pathways) :
                LET domain == learning_pathways[i][1]
                    graph == learning_pathways[i][2].knowledge_graph
                IN  /\ learning_pathways[i][2].domain = domain
                    /\ \A j \in 1..Len(graph) : graph[j][2].domain = domain)
    /\ [][/\ \A i \in 1..Len(learning_pathways) :
                /\ i <= Len(learning_pathways')
                /\ learning_pathways'[i][1] = learning_pathways[i][1]
                /\ DictKeySet(learning_pathways[i][2].knowledge_graph)
                      \subseteq DictKeySet(learning_pathways'[i][2].knowledge_graph)
          /\ (last'.op = "submit" /\ last'.ledger \in TxIds) =>
                \E i \in 1..Len(pending) :
                    LET task == pending[i]
                        domain == task.knowledge_data.domain
                    IN  /\ pending' = RemoveAt(pending, i)
                        /\ task.knowledge_id = last'.knowledge_id
                        /\ DictHas(learning_pathways', domain)
                        /\ LET graph == DictGet(learning_pathways', domain).knowledge_graph
                           IN  /\ DictHas(graph, task.knowledge_id)
                               /\ DictGet(graph, task.knowledge_id) = task.knowledge_data
         ]_vars

\* Two submissions for the domain ml were in flight together from an
\* orchestrator without pathways, the ledger has answered both, and the one
\* pathway of ml holds the items of both.
C31_Witness ==
    /\ pending = <<>>
    /\ ledger_calls = 2
    /\ last.op = "submit"
    /\ last.ledger \in TxIds
    /\ Len(learning_pathways) = 1
    /\ learning_pathways[1][1] = "ml"
    /\ DictKeySet(learning_pathways[1][2].knowledge_graph)
          = {_generate_knowledge_id(ItemA), _generate_knowledge_id(ItemB)}


\* C32: at most one cycle task runs at any time, also when
\* start_exchange_cycle is called while a task is running, and when
\* stop_exchange_cycle has returned no cycle task of the exchange runs.
C32_SingleCycleTask ==
    LET running == calls.orphans
                   + (IF cycle.pc \in {"sleeping", "rewarding"} THEN 1 ELSE 0)
    IN  /\ running <= 1
        /\ last.op = "stop" => running = 0


\* C33: the similarity of two items is |A \cap B| / |A \cup B| for the sets A
\* and B of the whitespace-separated tokens of their contents' JSON text (0
\* when both are empty): 1 for an item and itself when its set is not
\* empty, 0 for disjoint sets, and the same in both orders.
C33_Jaccard ==
    last.op = "similarity" =>
        LET A == ContentTokens(last.data1)
            B == ContentTokens(last.data2)
            similarity == last.value
        IN  /\ similarity[2] > 0
            /\ similarity[1] * Cardinality(A \cup B)
                  = Cardinality(A \cap B) * similarity[2]
            /\ (A \cup B = {}) => similarity[1] = 0
            /\ (last.data1 = last.data2 /\ A # {}) => similarity[1] = similarity[2]
            /\ (A \cap B = {}) => similarity[1] = 0
            /\ LET back == _calculate_similarity(last.data2, last.data1)
               IN  similarity[1] * back[2] = back[1] * similarity[2]

\* Two items whose contents hold the same pairs in the other order share no
\* token, although neither set is empty: their similarity is 0.
C33_Witness ==
    /\ last.op = "similarity"
    /\ last.data1 = ItemBadType
    /\ "content" \in DOMAIN last.data2
    /\ last.data2.content
          = << <<"payload", Str("x")>>, <<"type", Str("unknown_type")>> >>
    /\ Cardinality(ContentTokens(last.data1)) = 4
    /\ Cardinality(ContentTokens(last.data2)) = 4
    /\ last.value[1] = 0


\* C34: the centrality values that optimize_pathways uses on a graph with
\* items are one per item and sum to 1 (in 1/Unit, each value rounded down:
\* within one unit per item); on a graph without items there is no value
\* and optimize_pathways leaves every score as it was.
C34_CentralitySumsToOne ==
    last.op = "optimize" =>
        LET centrality == last.centrality
            sum == SumOver(centrality, DOMAIN centrality)
        IN  /\ DOMAIN centrality = last.keys
            /\ last.keys # {} =>
                  /\ sum <= Unit
                  /\ Unit - sum <= Cardinality(last.keys)
            /\ last.keys = {} =>
                  /\ centrality = <<>>
                  /\ last.after = last.before

\* optimize_pathways on a graph of two items: the centrality values, one of
\* them above 0, sum to 1 and a score has moved.
C34_Witness ==
    /\ last.op = "optimize"
    /\ Cardinality(last.keys) = 2
    /\ SumOver(last.centrality, last.keys) = Unit
    /\ \E k \in last.keys :
          /\ last.centrality[k] > 0
          /\ last.after[k] # GetScore(last.before, k)


====
